---------------------------- MODULE Spec2Model ----------------------------
(***************************************************************************)
(* cod5-watermark-worker: the task status state machine, the status store  *)
(* (Redis or in-process map), the dispatcher and the process_video         *)
(* pipeline.                                                               *)
(*                                                                         *)
(* Time is a counter of whole seconds (clock).  generate_task_id formats   *)
(* int(time.time()), so a task_id is modelled by the value of the clock at *)
(* submit time; timestamps (started_at, updated_at) are the clock as well. *)
(*                                                                         *)
(* Every StatusManager call of the pipeline is one step.  The external     *)
(* collaborators (storage, ffmpeg, detector, inpainter, HTTP) either       *)
(* return or raise; tempfile.TemporaryDirectory cleanup is taken to        *)
(* succeed.  Where RedisFlap is part of the next-state relation Redis may  *)
(* stop and resume answering at any moment, and the store swallows those   *)
(* failures as the code does.                                              *)
(***************************************************************************)
EXTENDS Integers, Sequences, FiniteSets, TLC

VARIABLES
    clock,      \* int(time.time()): whole seconds since process start
    use_redis,  \* StatusManager._use_redis
    redis_ok,   \* whether the Redis server currently answers
    statuses,   \* StatusManager._statuses: task_id -> TaskStatus (file backend)
    storage_file, \* the content of storage.json: task_id -> stored dict
    redis_db,   \* Redis keys cod5:wm:status:<task_id> -> stored dict
    jobs,       \* the work handed to the dispatcher, in submit order, with
                \* the position and locals of each run
    lock,       \* StatusManager._lock: the caller holding it, 0 when free
    calls,      \* the StatusManager call each concurrent caller is in, with
                \* its arguments, position and locals
    celery_app, \* queue.celery_app: None or the Celery app
    celery_env, \* what init_celery meets: "disabled" (QUEUE_BACKEND is no
                \* redis:// URL), "raises" (import or constructor raises), "ok"
    init_tries  \* how often the try block of init_celery has been entered

queueVars == <<celery_app, celery_env, init_tries>>

vars == <<clock, use_redis, redis_ok, statuses, storage_file, redis_db, jobs,
          lock, calls, celery_app, celery_env, init_tries>>

---------------------------------------------------------------------------
(* Bounds of the model *)

MaxClock == 1       \* seconds that pass
MaxSubmits == 2     \* submit requests (SpecSystem, SpecDispatch)
MaxActive == 1      \* runs in progress at once, never above the pool size
MaxPoolSubmits == 3 \* submit requests (SpecPool), above the pool size
MaxFrames == 1      \* frames a video is split into (SpecSystem)
MaxFramesRun == 11  \* frames a video is split into (Spec)
MaxUnreadable == 2  \* extracted frames of a video that cv2.imread cannot read
MaxFramesFair == 3  \* frames a video is split into (FairSpecRun)
MaxCallers == 2     \* concurrent callers of the StatusManager (SpecStore)
MaxCalls == 3       \* calls they make in all
MaxCallIds == 2     \* task_ids they pass to create, update and delete
MaxRecords == 3     \* records in the store list_recent reads (SpecList)
MaxLimit == 2       \* limit argument of list_recent

(* Program constants *)

CELERY_CONCURRENCY == 2
ProgressEvery == 10
InpaintBase == 20
InpaintSpan == 60
NoneInt == -1
TASK_TTL_HOURS == 72
MAX_FILE_MB == 800

\* Settings defaults and the limits of the validators; conf, iou and
\* blend_alpha in hundredths
YOLO_CONF == 55
YOLO_IOU == 45
YOLO_MAX_DET == 10
INPAINT_BLEND_ALPHA == 75
MASK_EXPAND == 4
FRAME_STRIDE == 1
ConfLo == 5
ConfHi == 80
IouLo == 10
IouHi == 90
MaxDetLo == 1
MaxDetHi == 50
AlphaLo == 0
AlphaHi == 100

None == "None"
Unset == "-"
EmptyDict == [k \in {} |-> None]

TaskIds == 0..MaxClock

\* settings.TASK_TTL_HOURS * 3600
TtlSeconds == TASK_TTL_HOURS * 3600

Callers == 1..MaxCallers
CallIds == 1..MaxCallIds
StoreIds == 1..MaxRecords

---------------------------------------------------------------------------
(* TaskStatus *)

\* TaskStatus.__init__: the attributes and their defaults; kwargs that name
\* an attribute override the default.
TaskStatusDefaults(task_id, now) ==
    [ task_id          |-> task_id,
      status           |-> "queued",
      progress         |-> 0,
      stage            |-> "uploading",
      started_at       |-> NoneInt,
      updated_at       |-> now,
      duration_seconds |-> 0,
      model_used       |-> None,
      frames_total     |-> NoneInt,
      frames_done      |-> NoneInt,
      spaces_input     |-> None,
      spaces_output    |-> None,
      log_excerpt      |-> "",
      message          |-> "",
      params_effective |-> EmptyDict,
      error_detail     |-> None,
      webhook_status   |-> NoneInt,
      webhook_error    |-> None ]

\* Mutant of SetAttrs: a key that names no attribute is set as well
SetAttrsAny(rec, kwargs) ==
    [f \in DOMAIN rec \cup DOMAIN kwargs |->
        IF f \in DOMAIN kwargs THEN kwargs[f] ELSE rec[f]]

\* for key, value in kwargs.items(): if hasattr(self, key): setattr(...)
SetAttrs(rec, kwargs) ==
    [f \in DOMAIN rec |-> IF f \in DOMAIN kwargs THEN kwargs[f] ELSE rec[f]]

NewTaskStatus(task_id, kwargs, now) ==
    SetAttrs(TaskStatusDefaults(task_id, now), kwargs)

\* TaskStatus.to_dict
ToDictKeys ==
    { "task_id", "status", "progress", "stage", "started_at", "updated_at",
      "duration_seconds", "model_used", "frames_total", "frames_done",
      "spaces_input", "spaces_output", "log_excerpt", "message",
      "params_effective", "error_detail", "webhook_status", "webhook_error" }

ToDict(rec) == [f \in ToDictKeys \cap DOMAIN rec |-> rec[f]]

\* A TaskStatus(**data) whose updated_at is the time of the call
FromDictFresh(data, now) ==
    [NewTaskStatus(data.task_id, data, now) EXCEPT !.updated_at = now]

\* TaskStatus(**data): task_id is the positional parameter, the rest kwargs
FromDict(data, now) == NewTaskStatus(data.task_id, data, now)

\* TaskStatus.update: merge, bump updated_at, recompute duration_seconds
TaskStatusUpdate(rec, kwargs, now) ==
    LET merged == SetAttrs(rec, kwargs)
        bumped == [merged EXCEPT !.updated_at = now]
    IN  IF bumped.started_at # NoneInt
        THEN [bumped EXCEPT !.duration_seconds = now - bumped.started_at]
        ELSE bumped

---------------------------------------------------------------------------
(* StatusManager *)

\* dict assignment d[k] = v
Put(d, k, v) == [x \in DOMAIN d \cup {k} |-> IF x = k THEN v ELSE d[x]]

\* A del that removes nothing
DelKeep(d, k) == [x \in DOMAIN d |-> d[x]]

\* del d[k]
Del(d, k) == [x \in DOMAIN d \ {k} |-> d[x]]

\* A save that writes the records the file does not hold yet
SaveToStorageNew(file, content) ==
    [t \in DOMAIN content |->
        IF t \in DOMAIN file THEN file[t] ELSE ToDict(content[t])]

\* _save_to_storage: the file is rewritten with the to_dict of every record
SaveToStorage(file, content) == [t \in DOMAIN content |-> ToDict(content[t])]

\* _load_from_storage: self._statuses[task_id] = TaskStatus(**status_data)
LoadFromStorage(file, now) == [t \in DOMAIN file |-> FromDict(file[t], now)]

\* _save_to_redis: setex, any exception is logged and dropped
SaveToRedis(db, task_id, status_data) ==
    IF redis_ok THEN Put(db, task_id, status_data) ELSE db

\* _load_from_redis: the stored dict as a set of at most one element; an
\* exception or a missing key gives None (the empty set)
LoadFromRedis(db, task_id) ==
    IF redis_ok /\ task_id \in DOMAIN db THEN {db[task_id]} ELSE {}

\* StatusManager.create: the content of the active backend afterwards
CreateStore(task_id, kwargs, now) ==
    LET status == [NewTaskStatus(task_id, kwargs, now) EXCEPT !.started_at = now]
    IN  IF use_redis
        THEN SaveToRedis(redis_db, task_id, ToDict(status))
        ELSE Put(statuses, task_id, status)

\* StatusManager.update: the content of the active backend afterwards
UpdateStore(task_id, kwargs, now) ==
    IF use_redis
    THEN LET data == LoadFromRedis(redis_db, task_id)
         IN  IF data = {}
             THEN redis_db
             ELSE LET temp_status ==
                          TaskStatusUpdate(FromDict(CHOOSE d \in data : TRUE, now),
                                           kwargs, now)
                  IN  SaveToRedis(redis_db, task_id, ToDict(temp_status))
    ELSE IF task_id \in DOMAIN statuses
         THEN Put(statuses, task_id,
                  TaskStatusUpdate(statuses[task_id], kwargs, now))
         ELSE statuses

\* StatusManager.get: the TaskStatus as a set of at most one element
Get(task_id) ==
    IF use_redis
    THEN {FromDict(d, clock) : d \in LoadFromRedis(redis_db, task_id)}
    ELSE IF task_id \in DOMAIN statuses THEN {statuses[task_id]} ELSE {}

\* The records a query can see, whatever the backend
Store == IF use_redis THEN redis_db ELSE statuses

\* Assign the content of the active backend, leave the other one alone.
\* On the file backend create always saves and update saves when it found
\* the record; a call that leaves the map as it was leaves the file as it
\* was or rewrites it from the same map.
SetStore(content) ==
    /\ statuses' = IF use_redis THEN statuses ELSE content
    /\ redis_db' = IF use_redis THEN content ELSE redis_db
    /\ storage_file' = IF use_redis \/ content = statuses
                       THEN storage_file
                       ELSE SaveToStorage(storage_file, content)

---------------------------------------------------------------------------
(* Settings validators and the parameters process_video resolves *)

\* An Optional number: <<>> is None, <<v>> the value v
Absent == <<>>

\* min(a, b) and max(a, b)
Min(a, b) == IF b < a THEN b ELSE a
Max(a, b) == IF b > a THEN b ELSE a

\* value or default: the default stands in for None and for 0 alike
PyOr(value, default) ==
    IF value = Absent \/ value[1] = 0 THEN default ELSE value[1]

\* A validator that hands the value or the default on as it is
validate_yolo_conf_unclamped(value) == PyOr(value, YOLO_CONF)

validate_yolo_conf(value) == Max(ConfLo, Min(ConfHi, PyOr(value, YOLO_CONF)))

validate_yolo_iou(value) == Max(IouLo, Min(IouHi, PyOr(value, YOLO_IOU)))

validate_max_det(value) == Max(MaxDetLo, Min(MaxDetHi, PyOr(value, YOLO_MAX_DET)))

validate_blend_alpha(value) ==
    Max(AlphaLo, Min(AlphaHi, PyOr(value, INPAINT_BLEND_ALPHA)))

\* mask_expand = override if override is not None else settings.MASK_EXPAND;
\* then max(0, int(mask_expand))
ResolveMaskExpand(override) ==
    LET mask_expand == IF override # Absent THEN override[1] ELSE MASK_EXPAND
    IN  Max(0, mask_expand)

\* max(1, int(override)) if override is not None else settings.FRAME_STRIDE
ResolveFrameStride(override) ==
    IF override # Absent THEN Max(1, override[1]) ELSE FRAME_STRIDE

\* The locals conf, iou, mask_expand, frame_stride and device of a run
Resolved(params) ==
    [ yolo_conf    |-> validate_yolo_conf(params.override_conf),
      yolo_iou     |-> validate_yolo_iou(Absent),
      mask_expand  |-> ResolveMaskExpand(params.override_mask_expand),
      frame_stride |-> ResolveFrameStride(params.override_frame_stride),
      torch_device |-> "cpu" ]

\* The params dict submit_remove_task builds
ParamsDict(conf, mask_expand, frame_stride, max_det, blend_alpha, url) ==
    [ override_conf         |-> conf,
      override_mask_expand  |-> mask_expand,
      override_frame_stride |-> frame_stride,
      max_det               |-> max_det,
      blend_alpha           |-> blend_alpha,
      webhook_url           |-> url ]

---------------------------------------------------------------------------
(* Submit handler and dispatcher *)

\* The webhook_url values submit_remove_task can put into params: the
\* validated URL, or None when it is absent, blank, 'string', too short or
\* has no scheme/host.
SubmitWebhookUrls == {None, "http://hook"}

\* The params of a request that sets no override
HandlerParams ==
    { ParamsDict(Absent, Absent, Absent, Absent, Absent, url) :
        url \in SubmitWebhookUrls }

\* The params process_video can be handed: absent, negative, zero, inside
\* and above the range for each override
ConfOverrides == {Absent, <<-10>>, <<0>>, <<30>>, <<200>>}
MaskExpandOverrides == {Absent, <<-3>>, <<0>>, <<7>>}
FrameStrideOverrides == {Absent, <<-2>>, <<0>>, <<3>>}
\* max_det and blend_alpha, which no step of process_video reads, in pairs
DetAlphaOverrides ==
    { <<Absent, Absent>>, << <<-1>>, <<-50>> >>, << <<0>>, <<0>> >>,
      << <<20>>, <<40>> >>, << <<99>>, <<150>> >> }

AnyParams ==
    { ParamsDict(c, m, f, da[1], da[2], None) :
        c \in ConfOverrides, m \in MaskExpandOverrides,
        f \in FrameStrideOverrides, da \in DetAlphaOverrides }

\* generate_task_id: cod5_<int(time.time())>
generate_task_id == clock

\* The initial fields submit_remove_task passes to StatusManager.create
SubmitKwargs ==
    [ status       |-> "queued",
      stage        |-> "uploading",
      progress     |-> 0,
      spaces_input |-> None,
      message      |-> "Video received. Uploading to Spaces..." ]

\* A unit of work as enqueue_video_processing receives it, plus the state of
\* its execution: st is pending, running, returned or raised; pc is the
\* position inside process_video; n the number of extracted frames; idx the
\* number of frames the inpainting loop has gone through; exc the exception
\* being handled; posts the bodies' status of the webhook POSTs issued; log
\* the status/stage/progress arguments of the update calls issued so far;
\* temp_dir whether the TemporaryDirectory of the run exists and files what
\* it holds; via the strategy that dispatched it (pool or celery); eff the
\* resolved parameters the run holds in its locals and used the ones its
\* extraction, detection and mask steps were called with; detected the
\* indices of frame_files detect_watermarks was called on, in call order;
\* all_boxes the list the returned boxes are collected in; mask the regions
\* set in the mask (none before it is built); tmp_path whether the file the
\* handler staged the upload in, and passed to the dispatcher, exists (no
\* step of process_video_task or process_video names it); written the
\* numbers of the frame_<number>.png files in processed_frames_dir.
NewJob(task_id, params) ==
    [ task_id |-> task_id,
      params  |-> params,
      st      |-> "pending",
      pc      |-> "-",
      n       |-> NoneInt,
      idx     |-> 0,
      boxes   |-> FALSE,
      detected |-> <<>>,
      all_boxes |-> <<>>,
      mask    |-> {},
      written |-> {},
      exc     |-> "",
      posts   |-> <<>>,
      resp    |-> NoneInt,
      log     |-> <<>>,
      via     |-> "pool",
      tmp_path |-> TRUE,
      eff     |-> EmptyDict,
      used    |-> EmptyDict,
      temp_dir |-> FALSE,
      files   |-> {} ]

JobIdx == 1..Len(jobs)

Running == {j \in JobIdx : jobs[j].st = "running"}

\* init_celery(): None when Redis is not configured or the import or the
\* constructor raises, else the app
init_celery == IF celery_env = "ok" THEN "app" ELSE None

\* enqueue_video_processing: if celery_app is None: celery_app = init_celery()
EnqueueApp == IF celery_app = None THEN init_celery ELSE celery_app

\* send_task when there is an app, else executor.submit
Strategy(app) == IF app # None THEN "celery" ELSE "pool"

\* submit_remove_task after validation and streaming: create the status
\* record, build params (one of paramSet), enqueue.
SubmitFrom(bound, paramSet) ==
    /\ Len(jobs) < bound
    /\ \E params \in paramSet :
         LET task_id == generate_task_id
         IN  /\ SetStore(CreateStore(task_id, SubmitKwargs, clock))
             /\ jobs' = Append(jobs, [NewJob(task_id, params)
                                        EXCEPT !.via = Strategy(EnqueueApp)])
    /\ celery_app' = EnqueueApp
    /\ init_tries' = IF celery_app = None /\ celery_env # "disabled"
                     THEN init_tries + 1 ELSE init_tries
    /\ UNCHANGED <<celery_env, lock, calls, clock, use_redis, redis_ok>>

\* A submit without overrides
Submit(bound) == SubmitFrom(bound, HandlerParams)

\* The import or the constructor of Celery starts or stops raising.
CeleryFlap ==
    /\ celery_env # "disabled"
    /\ celery_env' = IF celery_env = "ok" THEN "raises" ELSE "ok"
    /\ UNCHANGED <<celery_app, init_tries, lock, calls, clock, use_redis,
                   redis_ok, statuses, storage_file, redis_db, jobs>>

\* One second passes.
Tick ==
    /\ clock < MaxClock
    /\ clock' = clock + 1
    /\ UNCHANGED <<queueVars, lock, calls, use_redis, redis_ok, statuses, storage_file, redis_db, jobs>>

\* Mutant of RedisFlap: the manager falls back to the file backend when the
\* server stops answering
RedisFlapFallback ==
    /\ use_redis
    /\ redis_ok' = ~redis_ok
    /\ use_redis' = ~redis_ok
    /\ UNCHANGED <<queueVars, lock, calls, clock, statuses, storage_file, redis_db, jobs>>

\* The Redis server stops or resumes answering.
RedisFlap ==
    /\ use_redis
    /\ redis_ok' = ~redis_ok
    /\ UNCHANGED <<queueVars, lock, calls, clock, use_redis, statuses, storage_file, redis_db, jobs>>

\* def process_video(task_id, spaces_key, params): a call binds its
\* positional arguments to these three parameters or raises TypeError
\* before the body (and its try block) is entered.
ProcessVideoArity == 3

CallProcessVideo(job, args) ==
    IF Len(args) = ProcessVideoArity
    THEN [job EXCEPT !.st = "running", !.pc = "start"]
    ELSE [job EXCEPT !.st = "raised", !.exc = "TypeError"]

\* A pool whose workers are never counted
PoolFreeUnbounded(j) ==
    /\ j \in JobIdx
    /\ jobs[j].st = "pending"
    /\ \A i \in 1..(j - 1) : jobs[i].st # "pending"

\* A worker of the pool (ThreadPoolExecutor(max_workers=CELERY_CONCURRENCY),
\* FIFO work queue) is free to take the oldest pending job.
PoolFree(j) ==
    /\ j \in JobIdx
    /\ jobs[j].st = "pending"
    /\ \A i \in 1..(j - 1) : jobs[i].st # "pending"
    /\ Cardinality(Running) < CELERY_CONCURRENCY

\* A worker is free and fewer than MaxActive runs are being followed.
WorkerFree(j) ==
    /\ PoolFree(j)
    /\ Cardinality(Running) < MaxActive

\* process_video_task: return process_video(task_id, spaces_url, spaces_key, params)
process_video_task(j) ==
    /\ WorkerFree(j)
    /\ jobs' = [jobs EXCEPT ![j] =
                  CallProcessVideo(@, <<@.task_id, "tmp_path", "spaces_key", @.params>>)]
    /\ UNCHANGED <<queueVars, lock, calls, clock, use_redis, redis_ok, statuses, storage_file, redis_db>>

\* process_video entered with the parameters it declares.
process_video_call(j) ==
    /\ WorkerFree(j)
    /\ jobs' = [jobs EXCEPT ![j] =
                  CallProcessVideo(@, <<@.task_id, "spaces_key", @.params>>)]
    /\ UNCHANGED <<queueVars, lock, calls, clock, use_redis, redis_ok, statuses, storage_file, redis_db>>

\* A worker of the pool enters process_video with the parameters it
\* declares, whatever the number of runs already in the pool.
pool_process_video(j) ==
    /\ PoolFree(j)
    /\ jobs' = [jobs EXCEPT ![j] =
                  CallProcessVideo(@, <<@.task_id, "spaces_key", @.params>>)]
    /\ UNCHANGED <<queueVars, lock, calls, clock, use_redis, redis_ok, statuses, storage_file, redis_db>>

---------------------------------------------------------------------------
(* process_video *)

At(j, pc) == j \in JobIdx /\ jobs[j].st = "running" /\ jobs[j].pc = pc

\* What an update call says about status, stage and progress
LogEntry(kwargs) ==
    [ status   |-> IF "status" \in DOMAIN kwargs THEN kwargs.status ELSE Unset,
      stage    |-> IF "stage" \in DOMAIN kwargs THEN kwargs.stage ELSE Unset,
      progress |-> IF "progress" \in DOMAIN kwargs THEN kwargs.progress ELSE NoneInt ]

\* status_manager.update(task_id, **kwargs) by run j, which goes on at next
UpdateStep(j, kwargs, next) ==
    /\ SetStore(UpdateStore(jobs[j].task_id, kwargs, clock))
    /\ jobs' = [jobs EXCEPT ![j].pc = next,
                            ![j].log = Append(@, LogEntry(kwargs))]
    /\ UNCHANGED <<queueVars, lock, calls, clock, use_redis, redis_ok>>

\* A step on the run's own state; a raise leaves the with block and enters
\* the except clause of process_video.
LocalStep(j, job) ==
    /\ jobs' = [jobs EXCEPT ![j] = job]
    /\ UNCHANGED <<queueVars, lock, calls, clock, use_redis, redis_ok, statuses, storage_file, redis_db>>

Goto(j, next) == LocalStep(j, [jobs[j] EXCEPT !.pc = next])

\* Mutant of Raise: the directory is left behind (as with mkdtemp)
RaiseNoCleanup(j, e) == LocalStep(j, [jobs[j] EXCEPT !.pc = "except", !.exc = e])

\* An exception inside the with block: TemporaryDirectory.__exit__ removes
\* the directory and its content, then the except clause is entered.
Raise(j, e) ==
    LocalStep(j, [jobs[j] EXCEPT !.pc = "except", !.exc = e,
                                 !.temp_dir = FALSE, !.files = {},
                                 !.written = {}])

\* The arguments of the update calls, in the order of the source
StartKwargs ==
    [ status |-> "processing", stage |-> "downloading", progress |-> 5,
      log_excerpt |-> "Baixando video do Spaces..." ]

ParamsKwargs(eff) ==
    [ params_effective |-> eff,
      model_used |-> "YOLOv11s + LAMA-big" ]

\* An extracting update that also resets params_effective
ExtractingKwargsReset ==
    [ stage |-> "extracting", progress |-> 10,
      log_excerpt |-> "Extraindo frames do video...",
      params_effective |-> EmptyDict ]

ExtractingKwargs ==
    [ stage |-> "extracting", progress |-> 10,
      log_excerpt |-> "Extraindo frames do video..." ]

DetectingKwargs(total_frames) ==
    [ frames_total |-> total_frames, frames_done |-> 0,
      stage |-> "detecting", progress |-> 15,
      log_excerpt |-> "Detectando marcas d'agua..." ]

InpaintingKwargs ==
    [ stage |-> "inpainting", progress |-> 20,
      log_excerpt |-> "Aplicando inpainting nos frames..." ]

\* Mutant of InpaintProgress: the share of frames done is not divided out
InpaintProgressNoScale(k, n) == InpaintBase + k * InpaintSpan

\* progress = 20 + int((idx + 1) / len(frame_files) * 60), with k = idx + 1
InpaintProgress(k, n) == InpaintBase + (k * InpaintSpan) \div n

\* if (idx + 1) % 10 == 0 or (idx + 1) == len(frame_files)
FlushAfter(k, n) == k % ProgressEvery = 0 \/ k = n

FrameKwargs(k, n) ==
    [ frames_done |-> k, progress |-> InpaintProgress(k, n),
      log_excerpt |-> "Frame processado..." ]

\* Mutant of RenderingKwargs: the stage name of the next stage
RenderingKwargsSkip ==
    [ stage |-> "uploading_output", progress |-> 85,
      log_excerpt |-> "Renderizando video final..." ]

RenderingKwargs ==
    [ stage |-> "rendering", progress |-> 85,
      log_excerpt |-> "Renderizando video final..." ]

UploadingKwargs ==
    [ stage |-> "uploading_output", progress |-> 90,
      log_excerpt |-> "Enviando video processado para Spaces..." ]

\* Mutant of FinalKwargs: progress 100 without the status
FinalKwargsNoStatus(output_url) ==
    [ stage |-> "finalizing", progress |-> 100,
      spaces_output |-> output_url,
      message |-> "Watermark removed successfully",
      log_excerpt |-> "Processamento concluido!" ]

FinalKwargs(output_url) ==
    [ status |-> "completed", stage |-> "finalizing", progress |-> 100,
      spaces_output |-> output_url,
      message |-> "Watermark removed successfully",
      log_excerpt |-> "Processamento concluido!" ]

\* Mutant of ErrorKwargs: the exception text is not recorded
ErrorKwargsNoDetail(e) ==
    [ status |-> "error", progress |-> 0,
      message |-> <<"Erro no processamento: ", e>>,
      log_excerpt |-> <<"Erro: ", e>> ]

ErrorKwargs(e) ==
    [ status |-> "error", progress |-> 0,
      error_detail |-> e,
      message |-> <<"Erro no processamento: ", e>>,
      log_excerpt |-> <<"Erro: ", e>> ]

\* status_manager.update(status="processing", stage="downloading", progress=5)
PV_Start(j) ==
    /\ At(j, "start")
    /\ UpdateStep(j, StartKwargs, "params")

\* resolve conf, iou, mask_expand, frame_stride, device; write params_effective
PV_Params(j) ==
    /\ At(j, "params")
    /\ LET eff == Resolved(jobs[j].params)
       IN  /\ SetStore(UpdateStore(jobs[j].task_id, ParamsKwargs(eff), clock))
           /\ jobs' = [jobs EXCEPT ![j].pc = "download",
                                   ![j].eff = eff,
                                   ![j].log = Append(@, LogEntry(ParamsKwargs(eff)))]
    /\ UNCHANGED <<queueVars, lock, calls, clock, use_redis, redis_ok>>

\* with tempfile.TemporaryDirectory(): storage.download_file(...)
PV_Download(j) ==
    /\ At(j, "download")
    /\ \/ LocalStep(j, [jobs[j] EXCEPT !.pc = "upd_extracting",
                                       !.temp_dir = TRUE,
                                       !.files = {"local_video"}])
       \/ Raise(j, "download failed")

PV_UpdExtracting(j) ==
    /\ At(j, "upd_extracting")
    /\ UpdateStep(j, ExtractingKwargs, "extract")

\* os.makedirs, ffmpeg.probe, extract_frames: total_frames, frame_files
PV_Extract(j, maxFrames) ==
    /\ At(j, "extract")
    /\ \/ \E total \in 0..maxFrames :
            LocalStep(j, [jobs[j] EXCEPT !.pc = "upd_detecting", !.n = total,
                                         !.used = Put(@, "frame_stride",
                                                      jobs[j].eff.frame_stride),
                                         !.files = @ \cup {"frames"}])
       \/ Raise(j, "probe failed")
       \/ Raise(j, "Falha ao extrair frames do video")

\* The detecting update, then os.makedirs(processed_frames_dir)
PV_UpdDetecting(j) ==
    /\ At(j, "upd_detecting")
    /\ SetStore(UpdateStore(jobs[j].task_id, DetectingKwargs(jobs[j].n), clock))
    /\ jobs' = [jobs EXCEPT ![j].pc = "detect",
                            ![j].log = Append(@, LogEntry(DetectingKwargs(jobs[j].n))),
                            ![j].files = @ \cup {"processed_frames"}]
    /\ UNCHANGED <<queueVars, lock, calls, clock, use_redis, redis_ok>>

\* A sample of every frame of the video
SampleIndicesAll(n) == [i \in 1..Max(n, 1) |-> i - 1]

\* sample_indices = [0], + len // 2 if len > 1, + len - 1 if len > 2
SampleIndices(n) ==
    <<0>> \o (IF n > 1 THEN <<n \div 2>> ELSE <<>>)
          \o (IF n > 2 THEN <<n - 1>> ELSE <<>>)

\* detect_watermarks(frame, conf, iou, device): the boxes found in the frame,
\* none or one, a box known by the frame it was found in
DetectorReturns(idx) == {<<>>, <<[frame |-> idx]>>}

\* all_boxes.extend(boxes)
Collect(all_boxes, boxes) == all_boxes \o boxes

\* One iteration of for idx in sample_indices: cv2.imread(frame_files[idx]),
\* detect_watermarks, all_boxes.extend.  frame_files[idx] raises IndexError
\* when idx is not an index of the list; the loop is left after the last
\* sample.
PV_Detect(j) ==
    /\ At(j, "detect")
    /\ LET sample_indices == SampleIndices(jobs[j].n)
           pos == Len(jobs[j].detected) + 1
           idx == sample_indices[pos]
       IN  IF idx >= jobs[j].n
           THEN Raise(j, "list index out of range")
           ELSE \/ \E boxes \in DetectorReturns(idx) :
                     LocalStep(j, [jobs[j] EXCEPT
                        !.pc = IF pos = Len(sample_indices) THEN "mask" ELSE "detect",
                        !.detected = Append(@, idx),
                        !.all_boxes = Collect(@, boxes),
                        !.boxes = Collect(jobs[j].all_boxes, boxes) # <<>>,
                        !.used = Put(Put(@, "yolo_conf", jobs[j].eff.yolo_conf),
                                     "yolo_iou", jobs[j].eff.yolo_iou)])
                \/ Raise(j, "detect failed")

\* np.zeros((h, w), dtype=np.uint8): no region set
ZeroMask == {}

\* expand_mask(boxes, expand_px, frame_shape): the region of every box,
\* grown by expand_px, is set to 255
expand_mask(boxes, expand_px) ==
    {[box |-> boxes[i], expand_px |-> expand_px] : i \in 1..Len(boxes)}

\* A mask step for which an empty detection is a failure
MaskedStrict(job) ==
    IF job.all_boxes # <<>>
    THEN [job EXCEPT !.pc = "upd_inpainting",
                     !.mask = expand_mask(job.all_boxes, job.eff.mask_expand),
                     !.used = Put(@, "mask_expand", job.eff.mask_expand)]
    ELSE [job EXCEPT !.pc = "except", !.exc = "no watermark detected",
                     !.temp_dir = FALSE, !.files = {}, !.written = {}]

\* if all_boxes: mask = expand_mask(all_boxes, mask_expand, shape)
\* else: mask = np.zeros(...)
Masked(job) ==
    IF job.all_boxes # <<>>
    THEN [job EXCEPT !.pc = "upd_inpainting",
                     !.mask = expand_mask(job.all_boxes, job.eff.mask_expand),
                     !.used = Put(@, "mask_expand", job.eff.mask_expand)]
    ELSE [job EXCEPT !.pc = "upd_inpainting", !.mask = ZeroMask]

\* The mask is built from cv2.imread(frame_files[0]).shape, which raises
\* AttributeError when the frame cannot be read.
PV_Mask(j) ==
    /\ At(j, "mask")
    /\ \/ LocalStep(j, Masked(jobs[j]))
       \/ Raise(j, "'NoneType' object has no attribute 'shape'")

PV_UpdInpainting(j) ==
    /\ At(j, "upd_inpainting")
    /\ UpdateStep(j, InpaintingKwargs, "frames")

\* One iteration of for idx, frame_path in enumerate(frame_files)
PV_Frame(j) ==
    /\ At(j, "frames")
    /\ jobs[j].idx < jobs[j].n
    /\ LET k == jobs[j].idx + 1
           n == jobs[j].n
       IN  \/ \* frame is None: continue
              /\ jobs[j].idx - Cardinality(jobs[j].written) < MaxUnreadable
              /\ LocalStep(j, [jobs[j] EXCEPT !.idx = k])
           \/ \* inpaint_frame_lama or cv2.imwrite raises
              Raise(j, "inpaint failed")
           \/ \* frame written as frame_<idx+1>.png, with k = idx + 1
              IF FlushAfter(k, n)
              THEN /\ SetStore(UpdateStore(jobs[j].task_id, FrameKwargs(k, n), clock))
                   /\ jobs' = [jobs EXCEPT ![j].idx = k,
                                 ![j].written = @ \cup {k},
                                 ![j].log = Append(@, LogEntry(FrameKwargs(k, n)))]
                   /\ UNCHANGED <<queueVars, lock, calls, clock, use_redis, redis_ok>>
              ELSE LocalStep(j, [jobs[j] EXCEPT !.idx = k, !.written = @ \cup {k}])

PV_UpdRendering(j) ==
    /\ At(j, "frames")
    /\ jobs[j].idx = jobs[j].n
    /\ UpdateStep(j, RenderingKwargs, "render")

\* render_video(...), os.path.getsize(output_video)
PV_Render(j) ==
    /\ At(j, "render")
    /\ \/ LocalStep(j, [jobs[j] EXCEPT !.pc = "upd_uploading",
                                       !.files = @ \cup {"output_video"}])
       \/ Raise(j, "ffmpeg error")

PV_UpdUploading(j) ==
    /\ At(j, "upd_uploading")
    /\ UpdateStep(j, UploadingKwargs, "upload")

\* output_url = storage.upload_file(output_video, output_key)
PV_Upload(j) ==
    /\ At(j, "upload")
    /\ \/ Goto(j, "finalize")
       \/ Raise(j, "upload failed")

PV_Finalize(j) ==
    /\ At(j, "finalize")
    /\ UpdateStep(j, FinalKwargs("outputs/clean.mp4"), "webhook")

\* isinstance(webhook_url, str) and webhook_url.strip() and
\* webhook_url.lower() != 'string', then urlparse: scheme and netloc
WebhookUsable(url) ==
    /\ url # None
    /\ url # ""
    /\ url # "string"
    /\ url \in {"http://hook"}

\* The answers of requests.post: an HTTP status code, or 0 for an exception
\* (connection error, timeout)
PostAnswers == {200, 500, 0}

\* Mutant of Post: a POST that did not get a 200 is sent once more
PostRetry(j, next) ==
    \E answer \in {200, 500, 0} :
        LET snapshot == Get(jobs[j].task_id)
            body == IF snapshot = {} THEN "{}"
                    ELSE (CHOOSE r \in snapshot : TRUE).status
        IN  LocalStep(j, [jobs[j] EXCEPT
                            !.pc = next,
                            !.posts = IF answer = 200 THEN Append(@, body)
                                      ELSE Append(Append(@, body), body),
                            !.resp = answer])

\* Mutant of Post: a POST that did not get a 200 raises into the except clause
PostEscalate(j, next) ==
    \E answer \in {200, 500, 0} :
        LET snapshot == Get(jobs[j].task_id)
            body == IF snapshot = {} THEN "{}"
                    ELSE (CHOOSE r \in snapshot : TRUE).status
        IN  LocalStep(j, [jobs[j] EXCEPT
                            !.pc = IF answer = 200 THEN next ELSE "except",
                            !.exc = IF answer = 200 THEN @ ELSE "webhook failed",
                            !.posts = Append(@, body),
                            !.resp = answer])

\* status = status_manager.get(task_id);
\* requests.post(url, json=status.to_dict() if status else {}, timeout=10)
\* inside try/except Exception: the answer is logged and dropped.
Post(j, next) ==
    \E answer \in PostAnswers :
        LET snapshot == Get(jobs[j].task_id)
            body == IF snapshot = {} THEN "{}"
                    ELSE (CHOOSE r \in snapshot : TRUE).status
        IN  LocalStep(j, [jobs[j] EXCEPT !.pc = next,
                                         !.posts = Append(@, body),
                                         !.resp = answer])

\* Webhook of the success path, still inside the with block
PV_Webhook(j) ==
    /\ At(j, "webhook")
    /\ IF WebhookUsable(jobs[j].params.webhook_url)
       THEN Post(j, "return")
       ELSE Goto(j, "return")

\* return {"success": True, ...}: leaves the with block, whose __exit__
\* removes the directory
PV_Return(j) ==
    /\ At(j, "return")
    /\ LocalStep(j, [jobs[j] EXCEPT !.st = "returned", !.pc = "-",
                                   !.temp_dir = FALSE, !.files = {},
                                   !.written = {}])

\* except Exception as e: status_manager.update(status="error", ...)
PV_ErrUpdate(j) ==
    /\ At(j, "except")
    /\ UpdateStep(j, ErrorKwargs(jobs[j].exc), "err_webhook")

\* Webhook of the error path
PV_ErrWebhook(j) ==
    /\ At(j, "err_webhook")
    /\ IF WebhookUsable(jobs[j].params.webhook_url)
       THEN Post(j, "reraise")
       ELSE Goto(j, "reraise")

\* raise
PV_Reraise(j) ==
    /\ At(j, "reraise")
    /\ LocalStep(j, [jobs[j] EXCEPT !.st = "raised", !.pc = "-"])

---------------------------------------------------------------------------
(* StatusManager calls made by concurrent callers *)

\* The fields a caller of the store passes to create
CreateKwargs == [status |-> "queued", stage |-> "uploading", progress |-> 0]

\* The partial fields a caller passes to update: attributes of TaskStatus,
\* and one key (bogus) that is no attribute
UpdateInputs == { [progress |-> 50], [stage |-> "rendering", bogus |-> "x"] }

\* A caller between calls.  op is the method called, pc the position in it,
\* t0 the time read before the lock is taken, found the result of the
\* membership test, data what _load_from_redis returned, to_remove the
\* task_ids cleanup_old collected, result what list_recent returned, err
\* the exception that left the method, k the
\* number of calls made; seen records which kinds of write other callers
\* made to task_id since this call began; handler is the HTTP handler the
\* call is made from, if any, upload the file of a submit request and tmp
\* whether its temporary file exists.
IdleCall ==
    [ op |-> "idle", pc |-> "done", task_id |-> 0, kwargs |-> EmptyDict,
      handler |-> "", upload |-> EmptyDict, tmp |-> FALSE,
      limit |-> 0, t0 |-> 0, found |-> FALSE, data |-> {}, to_remove |-> {},
      result |-> <<>>,
      err |-> "", k |-> 0, seen |-> {} ]

RECURSIVE CallsMade(_)
CallsMade(n) == IF n = 0 THEN 0 ELSE calls[n].k + CallsMade(n - 1)

CanCall(c) == calls[c].pc = "done" /\ CallsMade(MaxCallers) < MaxCalls

NewCall(c, op, pc) ==
    [IdleCall EXCEPT !.op = op, !.pc = pc, !.t0 = clock, !.k = calls[c].k + 1]

\* The calls after caller c moved to rec and wrote (kind) to the records ids
Noted(c, rec, ids, kind) ==
    [d \in Callers |->
        IF d = c THEN rec
        ELSE IF (calls[d].op = "update" \/ calls[d].handler # "")
                /\ calls[d].task_id \in ids
             THEN [calls[d] EXCEPT !.seen = @ \cup {kind}]
             ELSE calls[d]]

Moved(c, rec) == calls' = [calls EXCEPT ![c] = rec]

\* status_manager.create(task_id, **kwargs): the TaskStatus is built, and
\* its timestamps read, before the backend is touched
BeginCreate(c) ==
    /\ CanCall(c)
    /\ \E id \in CallIds :
         Moved(c, [NewCall(c, "create", IF use_redis THEN "save" ELSE "lock")
                      EXCEPT !.task_id = id])
    /\ UNCHANGED <<queueVars, clock, use_redis, redis_ok, statuses, storage_file, redis_db, jobs, lock>>

\* status_manager.update(task_id, **kwargs)
BeginUpdate(c) ==
    /\ CanCall(c)
    /\ \E id \in CallIds, kw \in UpdateInputs :
         Moved(c, [NewCall(c, "update", IF use_redis THEN "load" ELSE "lock")
                      EXCEPT !.task_id = id, !.kwargs = kw])
    /\ UNCHANGED <<queueVars, clock, use_redis, redis_ok, statuses, storage_file, redis_db, jobs, lock>>

\* status_manager.delete(task_id)
BeginDelete(c) ==
    /\ CanCall(c)
    /\ \E id \in CallIds :
         Moved(c, [NewCall(c, "delete", IF use_redis THEN "del" ELSE "lock")
                      EXCEPT !.task_id = id])
    /\ UNCHANGED <<queueVars, clock, use_redis, redis_ok, statuses, storage_file, redis_db, jobs, lock>>

\* status_manager.list_recent(limit)
BeginList(c) ==
    /\ CanCall(c)
    /\ \E limit \in 1..MaxLimit :
         Moved(c, [NewCall(c, "list_recent", IF use_redis THEN "scan" ELSE "lock")
                      EXCEPT !.limit = limit])
    /\ UNCHANGED <<queueVars, clock, use_redis, redis_ok, statuses, storage_file, redis_db, jobs, lock>>

\* status_manager.cleanup_old(): on the file backend the cutoff is computed
\* before the lock is taken
BeginCleanup(c) ==
    /\ CanCall(c)
    /\ Moved(c, NewCall(c, "cleanup_old", IF use_redis THEN "skip" ELSE "lock"))
    /\ UNCHANGED <<queueVars, clock, use_redis, redis_ok, statuses, storage_file, redis_db, jobs, lock>>

\* Mutant of Acquire: the lock is taken whether or not it is held
AcquireUnguarded(c) ==
    /\ calls[c].pc = "lock"
    /\ lock' = c
    /\ Moved(c, [calls[c] EXCEPT !.pc = "locked"])
    /\ UNCHANGED <<queueVars, clock, use_redis, redis_ok, statuses, storage_file, redis_db, jobs>>

\* with self._lock: entered when no other caller holds the lock
Acquire(c) ==
    /\ calls[c].pc = "lock"
    /\ lock = 0
    /\ lock' = c
    /\ Moved(c, [calls[c] EXCEPT !.pc = "locked"])
    /\ UNCHANGED <<queueVars, clock, use_redis, redis_ok, statuses, storage_file, redis_db, jobs>>

\* Leaving the with block, normally or by an exception; get returns to the
\* handler that called it
Release(c) ==
    /\ calls[c].pc = "unlock"
    /\ lock' = 0
    /\ Moved(c, [calls[c] EXCEPT !.pc = IF calls[c].op = "get" THEN "got" ELSE "done"])
    /\ UNCHANGED <<queueVars, clock, use_redis, redis_ok, statuses, storage_file, redis_db, jobs>>

\* The TaskStatus create builds: status.started_at = get_timestamp()
CreatedStatus(task_id, now) ==
    [NewTaskStatus(task_id, CreateKwargs, now) EXCEPT !.started_at = now]

\* create, file backend: self._statuses[task_id] = status; _save_to_storage()
F_Create(c) ==
    /\ calls[c].op = "create" /\ calls[c].pc = "locked"
    /\ statuses' = Put(statuses, calls[c].task_id,
                       CreatedStatus(calls[c].task_id, calls[c].t0))
    /\ storage_file' = SaveToStorage(storage_file, statuses')
    /\ calls' = Noted(c, [calls[c] EXCEPT !.pc = "unlock"],
                      {calls[c].task_id}, "create")
    /\ UNCHANGED <<queueVars, clock, use_redis, redis_ok, redis_db, jobs, lock>>

\* update and delete, file backend: if task_id in self._statuses
F_Check(c) ==
    /\ calls[c].op \in {"update", "delete"} /\ calls[c].pc = "locked"
    /\ LET found == calls[c].task_id \in DOMAIN statuses
       IN  Moved(c, [calls[c] EXCEPT !.found = found,
                                     !.pc = IF found THEN "apply" ELSE "unlock"])
    /\ UNCHANGED <<queueVars, clock, use_redis, redis_ok, statuses, storage_file, redis_db, jobs, lock>>

\* update, file backend: self._statuses[task_id].update(**kwargs);
\* _save_to_storage().  The subscript raises KeyError on a missing key.
F_UpdateApply(c) ==
    /\ calls[c].op = "update" /\ calls[c].pc = "apply"
    /\ IF calls[c].task_id \in DOMAIN statuses
       THEN /\ statuses' = Put(statuses, calls[c].task_id,
                               TaskStatusUpdate(statuses[calls[c].task_id],
                                                calls[c].kwargs, clock))
            /\ storage_file' = SaveToStorage(storage_file, statuses')
            /\ calls' = Noted(c, [calls[c] EXCEPT !.pc = "unlock"],
                              {calls[c].task_id}, "update")
       ELSE /\ statuses' = statuses
            /\ storage_file' = storage_file
            /\ Moved(c, [calls[c] EXCEPT !.pc = "unlock", !.err = "KeyError"])
    /\ UNCHANGED <<queueVars, clock, use_redis, redis_ok, redis_db, jobs, lock>>

\* delete, file backend: del self._statuses[task_id]; _save_to_storage()
F_DeleteApply(c) ==
    /\ calls[c].op = "delete" /\ calls[c].pc = "apply"
    /\ IF calls[c].task_id \in DOMAIN statuses
       THEN /\ statuses' = Del(statuses, calls[c].task_id)
            /\ storage_file' = SaveToStorage(storage_file, statuses')
            /\ calls' = Noted(c, [calls[c] EXCEPT !.pc = "unlock"],
                              {calls[c].task_id}, "delete")
       ELSE /\ statuses' = statuses
            /\ storage_file' = storage_file
            /\ Moved(c, [calls[c] EXCEPT !.pc = "unlock", !.err = "KeyError"])
    /\ UNCHANGED <<queueVars, clock, use_redis, redis_ok, redis_db, jobs, lock>>

\* The entry list_recent returns for a record
Summary(d) ==
    [ task_id |-> d.task_id, status |-> d.status, progress |-> d.progress,
      updated_at |-> d.updated_at ]

\* The process is stopped and started again on the file backend:
\* StatusManager() loads storage.json into an empty map; the lock is new,
\* the calls that were under way are gone, and so is the pool's work.
Restart ==
    /\ ~use_redis
    /\ statuses' = LoadFromStorage(storage_file, clock)
    /\ lock' = 0
    /\ calls' = [c \in Callers |-> [IdleCall EXCEPT !.k = calls[c].k]]
    /\ jobs' = <<>>
    /\ UNCHANGED <<queueVars, clock, use_redis, redis_ok, storage_file, redis_db>>

\* The orders in which the keys of a dict, or a Redis SCAN, can come
Enumerations(S) ==
    { e \in [1..Cardinality(S) -> S] :
        \A i, j \in 1..Cardinality(S) : i # j => e[i] # e[j] }

Take(seq, n) == SubSeq(seq, 1, IF n < Len(seq) THEN n ELSE Len(seq))

\* list.sort(key=updated_at, reverse=True): stable, greatest first
RECURSIVE InsertDesc(_, _)
InsertDesc(x, sorted) ==
    IF sorted = <<>> THEN <<x>>
    ELSE IF Head(sorted).updated_at >= x.updated_at
         THEN <<Head(sorted)>> \o InsertDesc(x, Tail(sorted))
         ELSE <<x>> \o sorted

RECURSIVE SortDesc(_)
SortDesc(seq) ==
    IF seq = <<>> THEN <<>>
    ELSE InsertDesc(seq[Len(seq)], SortDesc(SubSeq(seq, 1, Len(seq) - 1)))

\* list_recent, file backend: sort all values, summarise the first limit
ListFromFile(order, limit) ==
    LET tasks == SortDesc([i \in 1..Len(order) |-> statuses[order[i]]])
        first == Take(tasks, limit)
    IN  [i \in 1..Len(first) |-> Summary(first[i])]

\* Mutant of ListFromRedis: the slice after the sort is left out
ListFromRedisNoSlice(keys, limit) ==
    LET scanned == Take(keys, limit * 2)
        tasks == [i \in 1..Len(scanned) |-> Summary(redis_db[scanned[i]])]
    IN  SortDesc(tasks)

\* _list_from_redis: keys = list(scan_iter(...)); the first limit * 2 keys
\* are read, sorted, and the first limit returned
ListFromRedis(keys, limit) ==
    LET scanned == Take(keys, limit * 2)
        tasks == [i \in 1..Len(scanned) |-> Summary(redis_db[scanned[i]])]
    IN  Take(SortDesc(tasks), limit)

F_List(c) ==
    /\ calls[c].op = "list_recent" /\ calls[c].pc = "locked"
    /\ \E order \in Enumerations(DOMAIN statuses) :
         Moved(c, [calls[c] EXCEPT !.pc = "unlock",
                                   !.result = ListFromFile(order, calls[c].limit)])
    /\ UNCHANGED <<queueVars, clock, use_redis, redis_ok, statuses, storage_file, redis_db, jobs, lock>>

\* Mutant of Expired: a record exactly TASK_TTL_HOURS old is removed too
ExpiredInclusive(rec, now) == rec.updated_at <= now - TtlSeconds

\* cutoff = now - timedelta(hours=ttl_hours); updated < cutoff
Expired(rec, now) == rec.updated_at < now - TtlSeconds

\* cleanup_old, file backend: collect to_remove, delete, save if any
F_Cleanup(c) ==
    /\ calls[c].op = "cleanup_old" /\ calls[c].pc = "locked"
    /\ LET to_remove == {id \in DOMAIN statuses : Expired(statuses[id], calls[c].t0)}
       IN  /\ statuses' = [id \in DOMAIN statuses \ to_remove |-> statuses[id]]
           /\ storage_file' = IF to_remove # {}
                              THEN SaveToStorage(storage_file, statuses')
                              ELSE storage_file
           /\ calls' = Noted(c, [calls[c] EXCEPT !.pc = "unlock",
                                                 !.to_remove = to_remove],
                             to_remove, "delete")
    /\ UNCHANGED <<queueVars, clock, use_redis, redis_ok, redis_db, jobs, lock>>

\* create, Redis backend: _save_to_redis(task_id, status.to_dict())
R_Create(c) ==
    /\ calls[c].op = "create" /\ calls[c].pc = "save"
    /\ redis_db' = SaveToRedis(redis_db, calls[c].task_id,
                               ToDict(CreatedStatus(calls[c].task_id, calls[c].t0)))
    /\ calls' = Noted(c, [calls[c] EXCEPT !.pc = "done"], {calls[c].task_id}, "create")
    /\ UNCHANGED <<queueVars, clock, use_redis, redis_ok, statuses, storage_file, jobs, lock>>

\* update, Redis backend: data = _load_from_redis(task_id); if not data: return
R_Load(c) ==
    /\ calls[c].op = "update" /\ calls[c].pc = "load"
    /\ LET data == LoadFromRedis(redis_db, calls[c].task_id)
       IN  Moved(c, [calls[c] EXCEPT !.data = data, !.found = data # {},
                                     !.pc = IF data = {} THEN "done" ELSE "save"])
    /\ UNCHANGED <<queueVars, clock, use_redis, redis_ok, statuses, storage_file, redis_db, jobs, lock>>

\* Mutant of RedisUpdated: what was loaded is written back without the merge
RedisUpdatedStale(data, kwargs, now) == ToDict(FromDict(data, now))

\* temp_status = TaskStatus(**data); temp_status.update(**kwargs);
\* temp_status.to_dict()
RedisUpdated(data, kwargs, now) ==
    ToDict(TaskStatusUpdate(FromDict(data, now), kwargs, now))

\* update, Redis backend: _save_to_redis(task_id, temp_status.to_dict())
R_Save(c) ==
    /\ calls[c].op = "update" /\ calls[c].pc = "save"
    /\ redis_db' = SaveToRedis(redis_db, calls[c].task_id,
                               RedisUpdated(CHOOSE d \in calls[c].data : TRUE,
                                            calls[c].kwargs, clock))
    /\ calls' = Noted(c, [calls[c] EXCEPT !.pc = "done"], {calls[c].task_id}, "update")
    /\ UNCHANGED <<queueVars, clock, use_redis, redis_ok, statuses, storage_file, jobs, lock>>

\* delete, Redis backend: _delete_from_redis(task_id)
R_Delete(c) ==
    /\ calls[c].op = "delete" /\ calls[c].pc = "del"
    /\ redis_db' = IF redis_ok THEN Del(redis_db, calls[c].task_id) ELSE redis_db
    /\ calls' = Noted(c, [calls[c] EXCEPT !.pc = "done"], {calls[c].task_id}, "delete")
    /\ UNCHANGED <<queueVars, clock, use_redis, redis_ok, statuses, storage_file, jobs, lock>>

\* list_recent, Redis backend
R_List(c) ==
    /\ calls[c].op = "list_recent" /\ calls[c].pc = "scan"
    /\ \E keys \in Enumerations(DOMAIN redis_db) :
         Moved(c, [calls[c] EXCEPT !.pc = "done",
                      !.result = IF redis_ok THEN ListFromRedis(keys, calls[c].limit)
                                 ELSE <<>>])
    /\ UNCHANGED <<queueVars, clock, use_redis, redis_ok, statuses, storage_file, redis_db, jobs, lock>>

\* cleanup_old, Redis backend: return at once
R_Cleanup(c) ==
    /\ calls[c].op = "cleanup_old" /\ calls[c].pc = "skip"
    /\ Moved(c, [calls[c] EXCEPT !.pc = "done"])
    /\ UNCHANGED <<queueVars, clock, use_redis, redis_ok, statuses, storage_file, redis_db, jobs, lock>>

\* TASK_TTL_HOURS pass at once
TtlElapse ==
    /\ clock <= MaxClock
    /\ clock' = clock + TtlSeconds
    /\ UNCHANGED <<queueVars, lock, calls, use_redis, redis_ok, statuses, storage_file, redis_db, jobs>>

---------------------------------------------------------------------------
(* The handlers get_results and delete_task *)

\* GET /get_results?task_id=...: status = status_manager.get(task_id)
BeginQuery(c) ==
    /\ CanCall(c)
    /\ \E id \in CallIds :
         Moved(c, [NewCall(c, "get", IF use_redis THEN "load" ELSE "lock")
                      EXCEPT !.task_id = id, !.handler = "get_results"])
    /\ UNCHANGED <<queueVars, clock, use_redis, redis_ok, statuses, storage_file, redis_db, jobs, lock>>

\* DELETE /tasks/{task_id}: status = status_manager.get(task_id)
BeginDeleteTask(c) ==
    /\ CanCall(c)
    /\ \E id \in CallIds :
         Moved(c, [NewCall(c, "get", IF use_redis THEN "load" ELSE "lock")
                      EXCEPT !.task_id = id, !.handler = "delete_task"])
    /\ UNCHANGED <<queueVars, clock, use_redis, redis_ok, statuses, storage_file, redis_db, jobs, lock>>

\* get, file backend: with self._lock: return self._statuses.get(task_id)
F_Get(c) ==
    /\ calls[c].op = "get" /\ calls[c].pc = "locked"
    /\ LET data == IF calls[c].task_id \in DOMAIN statuses
                   THEN {statuses[calls[c].task_id]} ELSE {}
       IN  Moved(c, [calls[c] EXCEPT !.data = data, !.found = data # {},
                                     !.pc = "unlock"])
    /\ UNCHANGED <<queueVars, clock, use_redis, redis_ok, statuses, storage_file, redis_db, jobs, lock>>

\* get, Redis backend: data = _load_from_redis(task_id); TaskStatus(**data)
\* or None
R_Get(c) ==
    /\ calls[c].op = "get" /\ calls[c].pc = "load"
    /\ LET data == {FromDict(d, clock) : d \in LoadFromRedis(redis_db, calls[c].task_id)}
       IN  Moved(c, [calls[c] EXCEPT !.data = data, !.found = data # {},
                                     !.pc = "got"])
    /\ UNCHANGED <<queueVars, clock, use_redis, redis_ok, statuses, storage_file, redis_db, jobs, lock>>

\* The object get returned as to_dict reads it: on the file backend it is
\* the stored object itself, which an update changes in place
Referent(c) ==
    IF ~use_redis /\ calls[c].task_id \in DOMAIN statuses
    THEN statuses[calls[c].task_id]
    ELSE CHOOSE d \in calls[c].data : TRUE

\* get_results after get: 404 if not status, else status.to_dict()
H_Results(c) ==
    /\ calls[c].handler = "get_results" /\ calls[c].pc = "got"
    /\ IF calls[c].data = {}
       THEN Moved(c, [calls[c] EXCEPT !.pc = "done", !.err = "404"])
       ELSE Moved(c, [calls[c] EXCEPT !.pc = "done",
                                      !.result = <<ToDict(Referent(c))>>])
    /\ UNCHANGED <<queueVars, clock, use_redis, redis_ok, statuses, storage_file, redis_db, jobs, lock>>

\* delete_task after get: 404 if not status; else mark_for_expiration for
\* the input and the output (exceptions logged and dropped), then
\* status_manager.delete(task_id)
H_DeleteTask(c) ==
    /\ calls[c].handler = "delete_task" /\ calls[c].op = "get"
    /\ calls[c].pc = "got"
    /\ IF calls[c].data = {}
       THEN Moved(c, [calls[c] EXCEPT !.pc = "done", !.err = "404"])
       ELSE Moved(c, [calls[c] EXCEPT !.op = "delete",
                                      !.pc = IF use_redis THEN "del" ELSE "lock"])
    /\ UNCHANGED <<queueVars, clock, use_redis, redis_ok, statuses, storage_file, redis_db, jobs, lock>>

---------------------------------------------------------------------------
(* The handler submit_remove_task, from the upload to the enqueue *)

\* settings.get_allowed_mimes()
AllowedMimes == {"video/mp4", "video/quicktime", "video/x-msvideo"}

\* The uploads of a request: size is file.size in MB (None when the client
\* does not announce it), content_type the announced type, streamed the MB
\* that file.stream() delivers
Uploads ==
    [ size : {Absent, <<0>>, <<1>>, <<MAX_FILE_MB + 1>>},
      content_type : {"video/mp4", "text/plain"},
      streamed : {1, MAX_FILE_MB + 1} ]

\* validate_file_size then validate_mime_type: the status code of the
\* HTTPException raised, "" when none is
validate_file(file) ==
    IF file.size # Absent /\ file.size[1] = 0 THEN "400"
    ELSE IF file.size # Absent /\ file.size[1] > MAX_FILE_MB THEN "413"
    ELSE IF file.content_type \notin AllowedMimes THEN "415"
    ELSE ""

\* A streaming loop that never compares bytes_written with max_bytes
StreamFitsAlways(file) == TRUE

\* The streaming loop ends without bytes_written > max_bytes
StreamFits(file) == file.streamed <= MAX_FILE_MB

\* POST /submit_remove_task
BeginSubmit(c) ==
    /\ CanCall(c)
    /\ \E file \in Uploads :
         Moved(c, [NewCall(c, "submit", "validate")
                      EXCEPT !.handler = "submit_remove_task", !.upload = file])
    /\ UNCHANGED <<queueVars, clock, use_redis, redis_ok, statuses, storage_file, redis_db, jobs, lock>>

\* validate_file(file); task_id = generate_task_id(); tempfile.mktemp
H_Validate(c) ==
    /\ calls[c].op = "submit" /\ calls[c].pc = "validate"
    /\ LET code == validate_file(calls[c].upload)
       IN  IF code # ""
           THEN Moved(c, [calls[c] EXCEPT !.pc = "done", !.err = code])
           ELSE Moved(c, [calls[c] EXCEPT !.pc = "stream",
                                          !.task_id = generate_task_id])
    /\ UNCHANGED <<queueVars, clock, use_redis, redis_ok, statuses, storage_file, redis_db, jobs, lock>>

\* The streaming loop into tmp_path: HTTPException 413 once bytes_written
\* exceeds max_bytes, the partial file unlinked
H_Stream(c) ==
    /\ calls[c].op = "submit" /\ calls[c].pc = "stream"
    /\ IF StreamFits(calls[c].upload)
       THEN Moved(c, [calls[c] EXCEPT !.pc = "create", !.tmp = TRUE])
       ELSE Moved(c, [calls[c] EXCEPT !.pc = "done", !.err = "413", !.tmp = FALSE])
    /\ UNCHANGED <<queueVars, clock, use_redis, redis_ok, statuses, storage_file, redis_db, jobs, lock>>

\* Metadata probe (exceptions dropped), status_manager.create, params,
\* enqueue_video_processing, the response
H_Enqueue(c) ==
    /\ calls[c].op = "submit" /\ calls[c].pc = "create"
    /\ \E params \in HandlerParams :
         /\ SetStore(CreateStore(calls[c].task_id, SubmitKwargs, clock))
         /\ jobs' = Append(jobs, [NewJob(calls[c].task_id, params)
                                    EXCEPT !.via = Strategy(EnqueueApp)])
    /\ celery_app' = EnqueueApp
    /\ init_tries' = IF celery_app = None /\ celery_env # "disabled"
                     THEN init_tries + 1 ELSE init_tries
    /\ calls' = Noted(c, [calls[c] EXCEPT !.pc = "done"], {calls[c].task_id}, "create")
    /\ UNCHANGED <<celery_env, clock, use_redis, redis_ok, lock>>

---------------------------------------------------------------------------
(* Specifications *)

\* After StatusManager() and module import: the backend is chosen, nothing
\* is stored, nothing is enqueued.
Init ==
    /\ clock = 0
    /\ use_redis \in BOOLEAN
    /\ redis_ok = TRUE
    /\ statuses = EmptyDict
    /\ storage_file = EmptyDict
    /\ redis_db = EmptyDict
    /\ jobs = <<>>
    /\ lock = 0
    /\ calls = [c \in Callers |-> IdleCall]
    /\ celery_env = IF use_redis THEN "raises" ELSE "disabled"
    /\ celery_app = None
    /\ init_tries = IF use_redis THEN 1 ELSE 0

\* One run of process_video, entered with the parameters it declares, on a
\* record created by submit; Redis answers for the whole run.
Next ==
    \/ Tick
    \/ Submit(1)
    \/ \E j \in JobIdx : process_video_call(j)
    \/ \E j \in JobIdx : PV_Start(j)
    \/ \E j \in JobIdx : PV_Params(j)
    \/ \E j \in JobIdx : PV_Download(j)
    \/ \E j \in JobIdx : PV_UpdExtracting(j)
    \/ \E j \in JobIdx : PV_Extract(j, MaxFramesRun)
    \/ \E j \in JobIdx : PV_UpdDetecting(j)
    \/ \E j \in JobIdx : PV_Detect(j)
    \/ \E j \in JobIdx : PV_Mask(j)
    \/ \E j \in JobIdx : PV_UpdInpainting(j)
    \/ \E j \in JobIdx : PV_Frame(j)
    \/ \E j \in JobIdx : PV_UpdRendering(j)
    \/ \E j \in JobIdx : PV_Render(j)
    \/ \E j \in JobIdx : PV_UpdUploading(j)
    \/ \E j \in JobIdx : PV_Upload(j)
    \/ \E j \in JobIdx : PV_Finalize(j)
    \/ \E j \in JobIdx : PV_Webhook(j)
    \/ \E j \in JobIdx : PV_Return(j)
    \/ \E j \in JobIdx : PV_ErrUpdate(j)
    \/ \E j \in JobIdx : PV_ErrWebhook(j)
    \/ \E j \in JobIdx : PV_Reraise(j)

Spec == Init /\ [][Next]_vars

\* Several submits, their runs entered with the declared parameters
NextSystem ==
    \/ Tick
    \/ Submit(MaxSubmits)
    \/ \E j \in JobIdx : process_video_call(j)
    \/ \E j \in JobIdx : PV_Start(j)
    \/ \E j \in JobIdx : PV_Params(j)
    \/ \E j \in JobIdx : PV_Download(j)
    \/ \E j \in JobIdx : PV_UpdExtracting(j)
    \/ \E j \in JobIdx : PV_Extract(j, MaxFrames)
    \/ \E j \in JobIdx : PV_UpdDetecting(j)
    \/ \E j \in JobIdx : PV_Detect(j)
    \/ \E j \in JobIdx : PV_Mask(j)
    \/ \E j \in JobIdx : PV_UpdInpainting(j)
    \/ \E j \in JobIdx : PV_Frame(j)
    \/ \E j \in JobIdx : PV_UpdRendering(j)
    \/ \E j \in JobIdx : PV_Render(j)
    \/ \E j \in JobIdx : PV_UpdUploading(j)
    \/ \E j \in JobIdx : PV_Upload(j)
    \/ \E j \in JobIdx : PV_Finalize(j)
    \/ \E j \in JobIdx : PV_Webhook(j)
    \/ \E j \in JobIdx : PV_Return(j)
    \/ \E j \in JobIdx : PV_ErrUpdate(j)
    \/ \E j \in JobIdx : PV_ErrWebhook(j)
    \/ \E j \in JobIdx : PV_Reraise(j)

SpecSystem == Init /\ [][NextSystem]_vars

\* More submits than the pool has workers, the runs side by side and each
\* followed as far as its download and, when that fails, to its end
NextPool ==
    \/ Tick
    \/ Submit(MaxPoolSubmits)
    \/ \E j \in JobIdx : pool_process_video(j)
    \/ \E j \in JobIdx : PV_Start(j)
    \/ \E j \in JobIdx : PV_Params(j)
    \/ \E j \in JobIdx : PV_Download(j)
    \/ \E j \in JobIdx : PV_ErrUpdate(j)
    \/ \E j \in JobIdx : PV_ErrWebhook(j)
    \/ \E j \in JobIdx : PV_Reraise(j)

SpecPool == Init /\ [][NextPool]_vars

\* A step of process_video by run j
RunStep(j) ==
    \/ PV_Start(j)
    \/ PV_Params(j)
    \/ PV_Download(j)
    \/ PV_UpdExtracting(j)
    \/ PV_Extract(j, MaxFramesFair)
    \/ PV_UpdDetecting(j)
    \/ PV_Detect(j)
    \/ PV_Mask(j)
    \/ PV_UpdInpainting(j)
    \/ PV_Frame(j)
    \/ PV_UpdRendering(j)
    \/ PV_Render(j)
    \/ PV_UpdUploading(j)
    \/ PV_Upload(j)
    \/ PV_Finalize(j)
    \/ PV_Webhook(j)
    \/ PV_Return(j)
    \/ PV_ErrUpdate(j)
    \/ PV_ErrWebhook(j)
    \/ PV_Reraise(j)

\* One run of process_video on a short video
NextRun ==
    \/ Tick
    \/ Submit(1)
    \/ \E j \in JobIdx : process_video_call(j)
    \/ \E j \in JobIdx : PV_Start(j)
    \/ \E j \in JobIdx : PV_Params(j)
    \/ \E j \in JobIdx : PV_Download(j)
    \/ \E j \in JobIdx : PV_UpdExtracting(j)
    \/ \E j \in JobIdx : PV_Extract(j, MaxFramesFair)
    \/ \E j \in JobIdx : PV_UpdDetecting(j)
    \/ \E j \in JobIdx : PV_Detect(j)
    \/ \E j \in JobIdx : PV_Mask(j)
    \/ \E j \in JobIdx : PV_UpdInpainting(j)
    \/ \E j \in JobIdx : PV_Frame(j)
    \/ \E j \in JobIdx : PV_UpdRendering(j)
    \/ \E j \in JobIdx : PV_Render(j)
    \/ \E j \in JobIdx : PV_UpdUploading(j)
    \/ \E j \in JobIdx : PV_Upload(j)
    \/ \E j \in JobIdx : PV_Finalize(j)
    \/ \E j \in JobIdx : PV_Webhook(j)
    \/ \E j \in JobIdx : PV_Return(j)
    \/ \E j \in JobIdx : PV_ErrUpdate(j)
    \/ \E j \in JobIdx : PV_ErrWebhook(j)
    \/ \E j \in JobIdx : PV_Reraise(j)

\* The thread that entered process_video runs it to its return or raise: a
\* step of the function that can be taken is eventually taken.
FairSpecRun ==
    Init /\ [][NextRun]_vars /\ WF_vars(\E j \in JobIdx : RunStep(j))

\* One run of process_video on any params dict
NextParams ==
    \/ Tick
    \/ SubmitFrom(1, AnyParams)
    \/ \E j \in JobIdx : process_video_call(j)
    \/ \E j \in JobIdx : PV_Start(j)
    \/ \E j \in JobIdx : PV_Params(j)
    \/ \E j \in JobIdx : PV_Download(j)
    \/ \E j \in JobIdx : PV_UpdExtracting(j)
    \/ \E j \in JobIdx : PV_Extract(j, MaxFrames)
    \/ \E j \in JobIdx : PV_UpdDetecting(j)
    \/ \E j \in JobIdx : PV_Detect(j)
    \/ \E j \in JobIdx : PV_Mask(j)
    \/ \E j \in JobIdx : PV_UpdInpainting(j)
    \/ \E j \in JobIdx : PV_Frame(j)
    \/ \E j \in JobIdx : PV_UpdRendering(j)
    \/ \E j \in JobIdx : PV_Render(j)
    \/ \E j \in JobIdx : PV_UpdUploading(j)
    \/ \E j \in JobIdx : PV_Upload(j)
    \/ \E j \in JobIdx : PV_Finalize(j)
    \/ \E j \in JobIdx : PV_Webhook(j)
    \/ \E j \in JobIdx : PV_Return(j)
    \/ \E j \in JobIdx : PV_ErrUpdate(j)
    \/ \E j \in JobIdx : PV_ErrWebhook(j)
    \/ \E j \in JobIdx : PV_Reraise(j)

SpecParams == Init /\ [][NextParams]_vars

\* The service as wired: submit, enqueue_video_processing and the pool's
\* workers calling process_video_task.  No job ever gets st = "running"
\* here, so no step of process_video is enabled.
NextDispatch ==
    \/ Tick
    \/ RedisFlap
    \/ Submit(MaxSubmits)
    \/ \E j \in JobIdx : process_video_task(j)

SpecDispatch == Init /\ [][NextDispatch]_vars

\* A free worker of the pool eventually takes the oldest pending job.
FairSpecDispatch ==
    SpecDispatch /\ WF_vars(\E j \in JobIdx : process_video_task(j))

\* The StatusManager under concurrent callers (request handlers and pool
\* workers), each step of a call being one step; Redis answers.
NextStore ==
    \/ Tick
    \/ TtlElapse
    \/ \E c \in Callers : BeginCreate(c)
    \/ \E c \in Callers : BeginUpdate(c)
    \/ \E c \in Callers : BeginDelete(c)
    \/ \E c \in Callers : BeginList(c)
    \/ \E c \in Callers : BeginCleanup(c)
    \/ \E c \in Callers : Acquire(c)
    \/ \E c \in Callers : Release(c)
    \/ \E c \in Callers : F_Create(c)
    \/ \E c \in Callers : F_Check(c)
    \/ \E c \in Callers : F_UpdateApply(c)
    \/ \E c \in Callers : F_DeleteApply(c)
    \/ \E c \in Callers : F_List(c)
    \/ \E c \in Callers : F_Cleanup(c)
    \/ \E c \in Callers : R_Create(c)
    \/ \E c \in Callers : R_Load(c)
    \/ \E c \in Callers : R_Save(c)
    \/ \E c \in Callers : R_Delete(c)
    \/ \E c \in Callers : R_List(c)
    \/ \E c \in Callers : R_Cleanup(c)

SpecStore == Init /\ [][NextStore]_vars

\* The file backend came up without a storage.json.
InitDurable == Init /\ ~use_redis

\* The file backend under concurrent callers, the process restarting at any
\* moment
NextDurable ==
    \/ Tick
    \/ TtlElapse
    \/ Restart
    \/ \E c \in Callers : BeginCreate(c)
    \/ \E c \in Callers : BeginUpdate(c)
    \/ \E c \in Callers : BeginDelete(c)
    \/ \E c \in Callers : BeginCleanup(c)
    \/ \E c \in Callers : Acquire(c)
    \/ \E c \in Callers : Release(c)
    \/ \E c \in Callers : F_Create(c)
    \/ \E c \in Callers : F_Check(c)
    \/ \E c \in Callers : F_UpdateApply(c)
    \/ \E c \in Callers : F_DeleteApply(c)
    \/ \E c \in Callers : F_Cleanup(c)

SpecDurable == InitDurable /\ [][NextDurable]_vars

\* The stores create calls at the seconds 0..MaxClock leave behind
CreatedStores ==
    UNION { [S -> 0..MaxClock] : S \in SUBSET StoreIds }

\* list_recent on a store that holds up to MaxRecords records
InitList ==
    /\ clock = MaxClock
    /\ use_redis \in BOOLEAN
    /\ redis_ok = TRUE
    /\ \E at \in CreatedStores :
         /\ statuses = IF use_redis THEN EmptyDict
                       ELSE [id \in DOMAIN at |-> CreatedStatus(id, at[id])]
         /\ storage_file = SaveToStorage(EmptyDict, statuses)
         /\ redis_db = IF use_redis
                       THEN [id \in DOMAIN at |-> ToDict(CreatedStatus(id, at[id]))]
                       ELSE EmptyDict
    /\ jobs = <<>>
    /\ lock = 0
    /\ calls = [c \in Callers |-> IdleCall]
    /\ celery_env = IF use_redis THEN "raises" ELSE "disabled"
    /\ celery_app = None
    /\ init_tries = IF use_redis THEN 1 ELSE 0

NextList ==
    \/ \E c \in Callers : BeginList(c)
    \/ \E c \in Callers : Acquire(c)
    \/ \E c \in Callers : Release(c)
    \/ \E c \in Callers : F_List(c)
    \/ \E c \in Callers : R_List(c)

SpecList == InitList /\ [][NextList]_vars

\* The StatusManager calls while the Redis server comes and goes
NextBackend ==
    \/ RedisFlap
    \/ NextStore

SpecBackend == Init /\ [][NextBackend]_vars

\* A record as submit creates it, and as a run that completed left it
StoredStatus(id, kind) ==
    IF kind = "queued" THEN CreatedStatus(id, 0)
    ELSE TaskStatusUpdate(CreatedStatus(id, 0), FinalKwargs("outputs/clean.mp4"), 0)

\* The stores in which each task_id is absent, queued or completed
HandlerStores ==
    UNION { [S -> {"queued", "completed"}] : S \in SUBSET CallIds }

InitHandlers ==
    /\ clock = 0
    /\ use_redis \in BOOLEAN
    /\ redis_ok = TRUE
    /\ \E kinds \in HandlerStores :
         /\ statuses = IF use_redis THEN EmptyDict
                       ELSE [id \in DOMAIN kinds |-> StoredStatus(id, kinds[id])]
         /\ storage_file = SaveToStorage(EmptyDict, statuses)
         /\ redis_db = IF use_redis
                       THEN [id \in DOMAIN kinds |-> ToDict(StoredStatus(id, kinds[id]))]
                       ELSE EmptyDict
    /\ jobs = <<>>
    /\ lock = 0
    /\ calls = [c \in Callers |-> IdleCall]
    /\ celery_env = IF use_redis THEN "raises" ELSE "disabled"
    /\ celery_app = None
    /\ init_tries = IF use_redis THEN 1 ELSE 0

\* Queries and deletes by concurrent requests, next to updates
NextHandlers ==
    \/ Tick
    \/ \E c \in Callers : BeginUpdate(c)
    \/ \E c \in Callers : BeginQuery(c)
    \/ \E c \in Callers : BeginDeleteTask(c)
    \/ \E c \in Callers : Acquire(c)
    \/ \E c \in Callers : Release(c)
    \/ \E c \in Callers : F_Check(c)
    \/ \E c \in Callers : F_UpdateApply(c)
    \/ \E c \in Callers : F_DeleteApply(c)
    \/ \E c \in Callers : F_Get(c)
    \/ \E c \in Callers : R_Load(c)
    \/ \E c \in Callers : R_Save(c)
    \/ \E c \in Callers : R_Delete(c)
    \/ \E c \in Callers : R_Get(c)
    \/ \E c \in Callers : H_Results(c)
    \/ \E c \in Callers : H_DeleteTask(c)

SpecHandlers == InitHandlers /\ [][NextHandlers]_vars

\* Submit requests with any upload, the accepted ones dispatched
NextSubmit ==
    \/ Tick
    \/ \E c \in Callers : BeginSubmit(c)
    \/ \E c \in Callers : H_Validate(c)
    \/ \E c \in Callers : H_Stream(c)
    \/ \E c \in Callers : H_Enqueue(c)

SpecSubmit == Init /\ [][NextSubmit]_vars

\* After import with any outcome of the module-level init_celery(): the
\* status backend is Redis only if QUEUE_BACKEND is a redis:// URL
InitQueue ==
    /\ clock = 0
    /\ use_redis \in BOOLEAN
    /\ redis_ok = TRUE
    /\ statuses = EmptyDict
    /\ storage_file = EmptyDict
    /\ redis_db = EmptyDict
    /\ jobs = <<>>
    /\ lock = 0
    /\ calls = [c \in Callers |-> IdleCall]
    /\ celery_env \in IF use_redis THEN {"raises", "ok"}
                     ELSE {"disabled", "raises", "ok"}
    /\ celery_app = init_celery
    /\ init_tries = IF celery_env = "disabled" THEN 0 ELSE 1

\* Submits dispatched by whichever strategy enqueue_video_processing selects
NextQueue ==
    \/ Tick
    \/ CeleryFlap
    \/ Submit(MaxSubmits)
    \/ \E j \in JobIdx : process_video_task(j)

SpecQueue == InitQueue /\ [][NextQueue]_vars

---------------------------------------------------------------------------
(* Properties *)

Terminal == {"completed", "error"}

Finished(j) == jobs[j].st \in {"returned", "raised"}

\* The run of job j is in, or has left through, the except clause after its
\* status update
Failed(j) == jobs[j].pc \in {"err_webhook", "reraise"} \/ jobs[j].st = "raised"

Last(seq) == seq[Len(seq)]

HasStage(e) == e.stage # Unset
HasProgress(e) == e.progress # NoneInt
StageWrites(j) == SelectSeq(jobs[j].log, HasStage)
ProgressWrites(j) == SelectSeq(jobs[j].log, HasProgress)

\* The fixed order of the stages a run goes through
StageOrder ==
    << "downloading", "extracting", "detecting", "inpainting", "rendering",
       "uploading_output", "finalizing" >>

StageRank(stage) == CHOOSE i \in 1..Len(StageOrder) : StageOrder[i] = stage

C2_StageOrder ==
    \A j \in JobIdx :
        LET w == StageWrites(j)
        IN  /\ jobs[j].log # <<>> =>
                 /\ jobs[j].log[1].stage = "downloading"
                 /\ jobs[j].log[1].status = "processing"
            /\ \A i \in 1..Len(w) :
                 /\ w[i].stage \in {StageOrder[k] : k \in 1..Len(StageOrder)}
                 /\ StageRank(w[i].stage) = i
            /\ \A i \in 1..Len(jobs[j].log) :
                 jobs[j].log[i].status = "completed"
                 => jobs[j].log[i].stage = "finalizing"
            /\ (w # <<>> /\ jobs[j].task_id \in DOMAIN Store)
               => Store[jobs[j].task_id].stage = Last(w).stage

\* C2 witness: a run that returned after writing all seven stages
C2_Witness ==
    \E j \in JobIdx :
        /\ jobs[j].st = "returned"
        /\ Len(StageWrites(j)) = Len(StageOrder)
        /\ Store[jobs[j].task_id].stage = "finalizing"

NonDecreasing(w) == \A i \in 1..(Len(w) - 1) : w[i].progress <= w[i + 1].progress

\* C3: the progress values a run writes never decrease until it ends or
\* fails; a run that returns wrote 100 last, a run that failed wrote 0
\* last; the record shows the value written last.
C3_Progress ==
    \A j \in JobIdx :
        LET w == ProgressWrites(j)
        IN  /\ IF Failed(j)
               THEN /\ Last(w).progress = 0
                    /\ NonDecreasing(SubSeq(w, 1, Len(w) - 1))
               ELSE NonDecreasing(w)
            /\ jobs[j].st = "returned" =>
                 /\ jobs[j].n >= 1
                 /\ Last(w).progress = 100
                 /\ <<w[1].progress, w[2].progress, w[3].progress, w[4].progress>>
                       = <<5, 10, 15, 20>>
            /\ (w # <<>> /\ jobs[j].task_id \in DOMAIN Store)
               => Store[jobs[j].task_id].progress = Last(w).progress

\* C3 witness: a run over 11 frames returned, having written the inpainting
\* values 20 + floor(600/11) = 74 and 80 on its way to 100
C3_Witness ==
    \E j \in JobIdx :
        /\ jobs[j].st = "returned"
        /\ jobs[j].n = 11
        /\ \E i \in 1..Len(jobs[j].log) : jobs[j].log[i].progress = 74
        /\ \E i \in 1..Len(jobs[j].log) : jobs[j].log[i].progress = 80
        /\ Store[jobs[j].task_id].progress = 100

\* The updates of the inpainting loop: frames_done and progress, no stage
FrameWrite(e) == e.stage = Unset /\ e.status = Unset /\ e.progress # NoneInt

\* C4: a record has progress 100 only with status completed; no update of
\* the inpainting loop writes a progress above 80.
C4_HundredOnlyCompleted ==
    /\ \A t \in DOMAIN Store :
         Store[t].progress = 100 => Store[t].status = "completed"
    /\ \A j \in JobIdx : \A i \in 1..Len(jobs[j].log) :
         /\ FrameWrite(jobs[j].log[i]) => jobs[j].log[i].progress <= 80
         /\ jobs[j].log[i].progress = 100 => jobs[j].log[i].status = "completed"

\* C4 witness: a record at progress 100 after its run wrote 80 for the
\* last frame
C4_Witness ==
    \E j \in JobIdx :
        /\ jobs[j].task_id \in DOMAIN Store
        /\ Store[jobs[j].task_id].progress = 100
        /\ Store[jobs[j].task_id].status = "completed"
        /\ \E i \in 1..Len(jobs[j].log) :
             FrameWrite(jobs[j].log[i]) /\ jobs[j].log[i].progress = 80

\* The exceptions the stages of process_video raise in this model
StageFailures ==
    { "download failed", "probe failed", "Falha ao extrair frames do video",
      "list index out of range", "detect failed",
      "'NoneType' object has no attribute 'shape'", "inpaint failed",
      "ffmpeg error", "upload failed" }

\* C5: when a stage raises, the run executes no further stage, updates the
\* record to status error, progress 0, error_detail and message from the
\* exception, and re-raises that exception.
C5_FailureHandling ==
    \A j \in JobIdx :
        /\ jobs[j].exc # "" =>
             /\ jobs[j].exc \in StageFailures
             /\ jobs[j].st # "returned"
             /\ jobs[j].st = "running" =>
                  jobs[j].pc \in {"except", "err_webhook", "reraise"}
        /\ (jobs[j].st = "running" /\ jobs[j].pc = "except") =>
             \A i \in 1..Len(jobs[j].log) : jobs[j].log[i].status # "error"
        /\ Failed(j) =>
             /\ jobs[j].exc # ""
             /\ Last(jobs[j].log) = [status |-> "error", stage |-> Unset, progress |-> 0]
             /\ \A i \in 1..(Len(jobs[j].log) - 1) : jobs[j].log[i].status # "error"
             /\ jobs[j].task_id \in DOMAIN Store =>
                  LET rec == Store[jobs[j].task_id]
                  IN  /\ rec.status = "error"
                      /\ rec.progress = 0
                      /\ rec.error_detail = jobs[j].exc
                      /\ rec.message = <<"Erro no processamento: ", jobs[j].exc>>

\* C5 witness: the inpainter raised on a frame and the exception left
\* process_video with the record in error
C5_Witness ==
    \E j \in JobIdx :
        /\ jobs[j].st = "raised"
        /\ jobs[j].exc = "inpaint failed"
        /\ Store[jobs[j].task_id].status = "error"
        /\ Store[jobs[j].task_id].error_detail = "inpaint failed"

\* C6: after a run handed to the dispatcher has ended in a failure, a query
\* sees status error with an error_detail; the record is not left queued or
\* processing.
C6_FailureVisible ==
    \A j \in JobIdx :
        jobs[j].st = "raised" =>
            \A rec \in Get(jobs[j].task_id) :
                /\ rec.status = "error"
                /\ rec.error_detail # None

\* C7: the worker's task wrapper enters the pipeline: a job taken by a
\* worker is running, or has returned with completed written, or was ended
\* by a collaborator's failure.
C7_WrapperRunsPipeline ==
    \A j \in JobIdx :
        jobs[j].st # "pending" =>
            \/ jobs[j].st = "running"
            \/ /\ jobs[j].st = "returned"
               /\ \E i \in 1..Len(jobs[j].log) : jobs[j].log[i].status = "completed"
            \/ /\ jobs[j].st = "raised"
               /\ jobs[j].exc \in StageFailures

\* C8: every task whose record was created by submit eventually has status
\* completed or error.
C8_EventuallyTerminal ==
    \A t \in TaskIds :
        (t \in DOMAIN Store) ~> (t \in DOMAIN Store /\ Store[t].status \in Terminal)

\* C9: a run whose params carry a valid webhook URL issues exactly one POST,
\* on the success path and on the failure path, after its terminal status
\* update and carrying that status, and does not repeat it when it fails.
C9_OnePost ==
    \A j \in JobIdx :
        /\ Len(jobs[j].posts) <= 1
        /\ (Finished(j) /\ WebhookUsable(jobs[j].params.webhook_url))
           => Len(jobs[j].posts) = 1
        /\ jobs[j].posts # <<>> =>
             /\ WebhookUsable(jobs[j].params.webhook_url)
             /\ Last(jobs[j].log).status \in Terminal
             /\ jobs[j].posts[1] = Last(jobs[j].log).status
             /\ jobs[j].st = "returned" => jobs[j].posts[1] = "completed"
             /\ jobs[j].st = "raised" => jobs[j].posts[1] = "error"

\* C9 witness: a failed run ended after one POST that met a transport error
C9_Witness ==
    \E j \in JobIdx :
        /\ jobs[j].st = "raised"
        /\ jobs[j].resp = 0
        /\ jobs[j].posts = <<"error">>

\* C10: after a webhook attempt the record holds its outcome: the HTTP
\* status code in webhook_status, or the failure in webhook_error.
C10_WebhookOutcomeRecorded ==
    \A j \in JobIdx :
        (Finished(j) /\ jobs[j].posts # <<>>) =>
            \A rec \in Get(jobs[j].task_id) :
                IF jobs[j].resp = 0
                THEN rec.webhook_error # None
                ELSE rec.webhook_status = jobs[j].resp

\* A webhook POST of job j got a non-2xx answer or met a transport error
WebhookFailed(j) == jobs[j].posts # <<>> /\ jobs[j].resp \in {500, 0}

WroteCompleted(j) ==
    \E i \in 1..Len(jobs[j].log) : jobs[j].log[i].status = "completed"

\* C11: a failed webhook never changes status or progress: a run that wrote
\* completed/100 still has them in its record after the failed POST, no
\* update follows the POST, and the run goes on to return, never into its
\* error path.
C11_WebhookFailureHarmless ==
    \A j \in JobIdx :
        (WebhookFailed(j) /\ WroteCompleted(j)) =>
            /\ jobs[j].exc = ""
            /\ jobs[j].st \in {"running", "returned"}
            /\ jobs[j].st = "running" => jobs[j].pc = "return"
            /\ Last(jobs[j].log).status = "completed"
            /\ Last(jobs[j].log).progress = 100
            /\ \A rec \in Get(jobs[j].task_id) :
                 rec.status = "completed" /\ rec.progress = 100

\* C11 witness: a run returned after its webhook was answered 500, the
\* record still completed at 100
C11_Witness ==
    \E j \in JobIdx :
        /\ jobs[j].st = "returned"
        /\ jobs[j].resp = 500
        /\ jobs[j].posts = <<"completed">>
        /\ Store[jobs[j].task_id].status = "completed"
        /\ Store[jobs[j].task_id].progress = 100

\* What the work directory of a run holds once the output is rendered
WorkFiles == {"local_video", "frames", "processed_frames", "output_video"}

\* C12: on every exit path of process_video (return, exception in a stage,
\* the except clause and what follows it) the work directory with the
\* source, the frames, the processed frames and the output no longer
\* exists; while the run is inside the with block it does.
C12_WorkDirRemoved ==
    \A j \in JobIdx :
        /\ (Finished(j) \/ jobs[j].pc \in {"except", "err_webhook", "reraise"})
           => (~jobs[j].temp_dir /\ jobs[j].files = {})
        /\ jobs[j].pc \in {"upd_uploading", "upload", "finalize", "webhook", "return"}
           => (jobs[j].temp_dir /\ jobs[j].files = WorkFiles)
        /\ jobs[j].files # {} => jobs[j].temp_dir

\* C12 witness: the upload of the rendered output failed, the exception
\* left process_video, and nothing of the directory is left
C12_Witness ==
    \E j \in JobIdx :
        /\ jobs[j].st = "raised"
        /\ jobs[j].exc = "upload failed"
        /\ ~jobs[j].temp_dir
        /\ jobs[j].files = {}

\* C13: no two submit requests receive the same task_id, so submit never
\* calls create twice for one task_id.
C13_UniqueTaskIds ==
    \A i, j \in JobIdx : i # j => jobs[i].task_id # jobs[j].task_id

\* The run of job j has issued an update call on its task's record
Mutated(j) == jobs[j].log # <<>>

Updated(c) ==
    /\ calls[c].op = "update"
    /\ calls[c].found
    /\ calls[c].pc \in {"unlock", "done"}

\* The supplied fields that are attributes of TaskStatus
Supplied(c) == DOMAIN calls[c].kwargs \cap ToDictKeys

HasFields(rec, kwargs) ==
    \A f \in DOMAIN kwargs \cap ToDictKeys : rec[f] = kwargs[f]

InLock(c) == calls[c].pc \in {"locked", "apply", "unlock"}

\* C15: on the file backend the body of every StatusManager call runs under
\* the lock, one caller at a time, so no update meets a record that
\* vanished between its test and its write, and after two updates of one
\* task_id that set different fields, with no create or delete of it in
\* between, the record holds the fields of both.
C15_FileUpdateAtomic ==
    ~use_redis =>
        /\ \A c, d \in Callers : (InLock(c) /\ InLock(d)) => c = d
        /\ \A c \in Callers : InLock(c) => lock = c
        /\ \A c \in Callers : calls[c].err = ""
        /\ \A c, d \in Callers :
             ( /\ c # d /\ Updated(c) /\ Updated(d)
               /\ calls[c].task_id = calls[d].task_id
               /\ Supplied(c) \cap Supplied(d) = {}
               /\ (calls[c].seen \cup calls[d].seen) \cap {"create", "delete"} = {} )
             => /\ calls[c].task_id \in DOMAIN statuses
                /\ HasFields(statuses[calls[c].task_id], calls[c].kwargs)
                /\ HasFields(statuses[calls[c].task_id], calls[d].kwargs)

\* C15 witness: two callers have updated the same record on the file
\* backend, one progress and one stage, and it holds both
C15_Witness ==
    /\ ~use_redis
    /\ \E c, d \in Callers :
         /\ c # d /\ Updated(c) /\ Updated(d)
         /\ calls[c].pc = "done" /\ calls[d].pc = "done"
         /\ calls[c].task_id = calls[d].task_id
         /\ "update" \in calls[c].seen
         /\ "progress" \in Supplied(c) /\ "stage" \in Supplied(d)
         /\ statuses[calls[c].task_id].progress = 50
         /\ statuses[calls[c].task_id].stage = "rendering"

\* C16: on the Redis backend update is load, merge, write-back; when no
\* other caller wrote the task_id since the call began, the fields of the
\* update are in the record after the call has returned.
C16_RedisSingleWriter ==
    use_redis =>
        \A c \in Callers :
            (Updated(c) /\ calls[c].pc = "done" /\ calls[c].seen = {})
            => /\ calls[c].task_id \in DOMAIN redis_db
               /\ HasFields(redis_db[calls[c].task_id], calls[c].kwargs)

\* C16 witness: two callers updated one task_id on Redis at the same time
\* and the progress written by one of them is lost
C16_Witness ==
    /\ use_redis
    /\ \E c, d \in Callers :
         /\ c # d /\ Updated(c) /\ Updated(d)
         /\ calls[c].pc = "done" /\ calls[d].pc = "done"
         /\ calls[c].task_id = calls[d].task_id
         /\ "progress" \in Supplied(c) /\ "stage" \in Supplied(d)
         /\ calls[c].seen = {"update"}
         /\ calls[c].task_id \in DOMAIN redis_db
         /\ redis_db[calls[c].task_id].progress = 0
         /\ redis_db[calls[c].task_id].stage = "rendering"

\* Caller c takes a step inside the call op
StepsIn(c, op) ==
    /\ calls[c].op = op /\ calls'[c].op = op
    /\ calls'[c].k = calls[c].k
    /\ calls'[c].pc # calls[c].pc

\* The record update is to leave: the supplied attributes, updated_at and
\* duration_seconds changed, everything else as it was
Expected(old, kwargs, now) ==
    [f \in DOMAIN old |->
        IF f \in DOMAIN kwargs THEN kwargs[f]
        ELSE IF f = "updated_at" THEN now
        ELSE IF f = "duration_seconds" THEN now - old.started_at
        ELSE old[f]]

\* C17: update on an existing record changes exactly the supplied fields
\* that are attributes of TaskStatus, updated_at and duration_seconds,
\* ignores a supplied key that is no attribute and leaves every other field
\* and every other record as it was; on a task_id without a record no step
\* of the call changes the store.  Both backends, no other writer of the
\* task_id between load and write-back.
C17_UpdateFrame ==
    [][\A c \in Callers :
          StepsIn(c, "update") =>
              /\ use_redis => statuses' = statuses
              /\ ~use_redis => redis_db' = redis_db
              /\ IF calls[c].pc = (IF use_redis THEN "save" ELSE "apply")
                 THEN /\ calls[c].found
                      /\ (use_redis => calls[c].seen = {}) =>
                           /\ calls[c].task_id \in DOMAIN Store
                           /\ Store' = Put(Store, calls[c].task_id,
                                           Expected(Store[calls[c].task_id],
                                                    calls[c].kwargs, clock))
                 ELSE Store' = Store]_vars

\* C17 witness: an update supplying stage and a key that is no attribute,
\* made TASK_TTL_HOURS after the record was created, has returned
C17_Witness ==
    \E c \in Callers :
        /\ Updated(c) /\ calls[c].pc = "done" /\ calls[c].seen = {}
        /\ "bogus" \in DOMAIN calls[c].kwargs
        /\ calls[c].task_id \in DOMAIN Store
        /\ "bogus" \notin DOMAIN Store[calls[c].task_id]
        /\ Store[calls[c].task_id].stage = "rendering"
        /\ Store[calls[c].task_id].progress = 0
        /\ Store[calls[c].task_id].started_at = 0
        /\ Store[calls[c].task_id].updated_at = TtlSeconds
        /\ Store[calls[c].task_id].duration_seconds = TtlSeconds

\* Caller c has the result of a list_recent call
Listed(c) == calls[c].op = "list_recent" /\ calls[c].pc \in {"unlock", "done"}

\* C18: list_recent(N) returns at most N summaries, ordered by updated_at
\* descending, on both backends.
C18_ListBounded ==
    \A c \in Callers :
        Listed(c) =>
            /\ Len(calls[c].result) <= calls[c].limit
            /\ \A i, j \in 1..Len(calls[c].result) :
                 i < j => calls[c].result[i].updated_at >= calls[c].result[j].updated_at

\* C18 witness: from a store of three records list_recent(2) returned two
\* summaries, the later one first
C18_Witness ==
    \E c \in Callers :
        /\ Listed(c)
        /\ calls[c].limit = 2
        /\ Cardinality(DOMAIN Store) = 3
        /\ Len(calls[c].result) = 2
        /\ calls[c].result[1].updated_at > calls[c].result[2].updated_at

\* C19: the summaries list_recent(N) returns are those of the N records
\* with the greatest updated_at among all stored records (all of them when
\* there are fewer than N), on both backends.
C19_ListMostRecent ==
    \A c \in Callers :
        Listed(c) =>
            LET res == calls[c].result
                ids == {res[i].task_id : i \in 1..Len(res)}
            IN  /\ Len(res) = IF Cardinality(DOMAIN Store) < calls[c].limit
                              THEN Cardinality(DOMAIN Store) ELSE calls[c].limit
                /\ Cardinality(ids) = Len(res)
                /\ ids \subseteq DOMAIN Store
                /\ \A i \in 1..Len(res) : res[i] = Summary(Store[res[i].task_id])
                /\ \A other \in DOMAIN Store \ ids : \A i \in 1..Len(res) :
                     Store[other].updated_at <= res[i].updated_at

\* C20: on the file backend cleanup_old removes exactly the records whose
\* updated_at is older than the call's now minus TASK_TTL_HOURS and leaves
\* every other record as it was; on the Redis backend no step of the call
\* changes anything.
C20_CleanupFrame ==
    [][\A c \in Callers :
          StepsIn(c, "cleanup_old") =>
              /\ redis_db' = redis_db
              /\ IF ~use_redis /\ calls[c].pc = "locked"
                 THEN LET kept == { id \in DOMAIN statuses :
                                      statuses[id].updated_at
                                          >= calls[c].t0 - TASK_TTL_HOURS * 3600 }
                      IN  statuses' = [id \in kept |-> statuses[id]]
                 ELSE statuses' = statuses]_vars

\* C20 witness: cleanup_old on the file backend removed a record and kept
\* another
C20_Witness ==
    \E c \in Callers :
        /\ ~use_redis
        /\ calls[c].op = "cleanup_old" /\ calls[c].pc = "done"
        /\ calls[c].to_remove # {}
        /\ calls[c].to_remove \cap DOMAIN statuses = {}
        /\ \E id \in DOMAIN statuses : statuses[id].updated_at = TtlSeconds + 1

\* C21: the backend chosen when the StatusManager was constructed never
\* changes: no step of any call and no failure of the Redis server flips
\* _use_redis, and every call reads and writes the chosen backend only.
C21_BackendFixed ==
    [][/\ use_redis' = use_redis
       /\ use_redis => statuses' = statuses
       /\ ~use_redis => redis_db' = redis_db]_vars

\* C21 witness: a create on the Redis backend has returned while the server
\* did not answer; the record is nowhere and the backend is still Redis
C21_Witness ==
    /\ use_redis
    /\ ~redis_ok
    /\ \E c \in Callers :
         /\ calls[c].op = "create" /\ calls[c].pc = "done"
         /\ calls[c].task_id \notin DOMAIN redis_db
    /\ statuses = EmptyDict

\* C22: the dispatcher strategy is selected once and cached: after the
\* import-time initialisation no enqueue enters init_celery's try block
\* again, and all tasks of the process are dispatched by one strategy.
C22_StrategyCached ==
    /\ init_tries <= 1
    /\ \A i, j \in JobIdx : jobs[i].via = jobs[j].via

\* C23: under the local strategy at most CELERY_CONCURRENCY runs of
\* process_video execute at the same time, a submit is accepted whatever the
\* pool is doing, and every accepted task is pending, running or ended.
C23_PoolBound ==
    /\ Cardinality(Running) <= CELERY_CONCURRENCY
    /\ Len(jobs) < MaxPoolSubmits => ENABLED Submit(MaxPoolSubmits)
    /\ \A j \in JobIdx :
         /\ jobs[j].via = "pool"
         /\ jobs[j].st \in {"pending", "running", "returned", "raised"}

\* Both workers busy and a third task, accepted after they were, waiting
C23_Witness ==
    /\ Cardinality(Running) = CELERY_CONCURRENCY
    /\ Len(jobs) = MaxPoolSubmits
    /\ jobs[MaxPoolSubmits].st = "pending"
    /\ \A j \in Running : jobs[j].pc # "start"

\* C24: whatever the overrides are (negative, zero, oversized or absent), the
\* parameters a run resolves satisfy ConfLo <= conf <= ConfHi,
\* IouLo <= iou <= IouHi, mask_expand >= 0 and frame_stride >= 1, and
\* validate_max_det and validate_blend_alpha return values in
\* MaxDetLo..MaxDetHi and AlphaLo..AlphaHi.
C24_ResolvedInRange ==
    \A j \in JobIdx :
        /\ validate_max_det(jobs[j].params.max_det) \in MaxDetLo..MaxDetHi
        /\ validate_blend_alpha(jobs[j].params.blend_alpha) \in AlphaLo..AlphaHi
        /\ jobs[j].eff # EmptyDict =>
             /\ jobs[j].eff.yolo_conf \in ConfLo..ConfHi
             /\ jobs[j].eff.yolo_iou \in IouLo..IouHi
             /\ jobs[j].eff.mask_expand >= 0
             /\ jobs[j].eff.frame_stride >= 1

\* A run has resolved an oversized conf, a negative mask_expand and a zero
\* frame_stride, next to an oversized max_det and blend_alpha
C24_Witness ==
    \E j \in JobIdx :
        /\ jobs[j].eff # EmptyDict
        /\ jobs[j].params.override_conf = <<200>>
        /\ jobs[j].params.override_mask_expand = <<-3>>
        /\ jobs[j].params.override_frame_stride = <<0>>
        /\ jobs[j].params.max_det = <<99>>
        /\ jobs[j].params.blend_alpha = <<150>>

\* max(lower, min(upper, value)) for a present value, else the default
ClampOrDefault(value, lower, upper, default) ==
    IF value = Absent THEN default ELSE Max(lower, Min(upper, value[1]))

\* C25: a present override resolves to max(lower, min(upper, value)), also
\* when it is 0; the default is used only when the override is absent.
C25_ClampOrDefault ==
    \A j \in JobIdx :
         /\ \A v \in ConfOverrides :
              validate_yolo_iou(v) = ClampOrDefault(v, IouLo, IouHi, YOLO_IOU)
         /\ validate_max_det(jobs[j].params.max_det)
              = ClampOrDefault(jobs[j].params.max_det, MaxDetLo, MaxDetHi, YOLO_MAX_DET)
         /\ validate_blend_alpha(jobs[j].params.blend_alpha)
              = ClampOrDefault(jobs[j].params.blend_alpha, AlphaLo, AlphaHi,
                               INPAINT_BLEND_ALPHA)
         /\ jobs[j].eff # EmptyDict =>
              /\ jobs[j].eff.yolo_conf
                   = ClampOrDefault(jobs[j].params.override_conf, ConfLo, ConfHi, YOLO_CONF)
              /\ jobs[j].eff.mask_expand
                   = IF jobs[j].params.override_mask_expand = Absent THEN MASK_EXPAND
                     ELSE Max(0, jobs[j].params.override_mask_expand[1])
              /\ jobs[j].eff.frame_stride
                   = IF jobs[j].params.override_frame_stride = Absent THEN FRAME_STRIDE
                     ELSE Max(1, jobs[j].params.override_frame_stride[1])

\* The params_effective of the record of run j
Effective(j) ==
    IF jobs[j].task_id \in DOMAIN Store
    THEN Store[jobs[j].task_id].params_effective ELSE EmptyDict

\* C26: within one run params_effective is written once, by the step that
\* precedes the download; it is empty before, and from then on it equals the
\* resolved values the run keeps in its locals, which are the values its
\* extraction, detection and mask steps are called with; no other step of the
\* run changes it.
C26_ParamsEffective ==
    [][/\ (\A j \in JobIdx :
             /\ jobs[j].pc \in {"start", "params"} => Effective(j) = EmptyDict
             /\ jobs[j].eff # EmptyDict =>
                  /\ Effective(j) = jobs[j].eff
                  /\ \A k \in DOMAIN jobs[j].used :
                       jobs[j].used[k] = Effective(j)[k])'
       /\ \A id \in DOMAIN Store \cap DOMAIN Store' :
            Store'[id].params_effective # Store[id].params_effective =>
                /\ Store[id].params_effective = EmptyDict
                /\ \E j \in JobIdx :
                     /\ jobs[j].task_id = id
                     /\ At(j, "params")
                     /\ jobs'[j].pc = "download"]_vars

\* A run with an oversized conf override has returned after its extraction,
\* detection and mask steps used the clamped values the record shows
C26_Witness ==
    \E j \in JobIdx :
        /\ jobs[j].st = "returned"
        /\ jobs[j].params.override_conf = <<200>>
        /\ jobs[j].params.override_frame_stride = <<-2>>
        /\ DOMAIN jobs[j].used = {"frame_stride", "yolo_conf", "yolo_iou", "mask_expand"}
        /\ Effective(j).yolo_conf = ConfHi
        /\ Effective(j).frame_stride = 1

Advances(c, op) ==
    /\ calls[c].op = op \/ calls'[c].op = op
    /\ <<calls'[c].op, calls'[c].pc, calls'[c].k>> # <<calls[c].op, calls[c].pc, calls[c].k>>

\* Caller c has an answer from the handler h
Answered(c, h) == calls[c].handler = h /\ calls[c].pc = "done"

\* C28: no step of StatusManager.get or of the query handler changes a
\* stored record, and two queries for one task_id, with no write to it since
\* the earlier of them began, give the same answer, on both backends.
C28_QueryPure ==
    [][/\ \A c \in Callers :
            Advances(c, "get") => (statuses' = statuses /\ redis_db' = redis_db)
       /\ (\A c, d \in Callers :
             ( /\ c # d
               /\ Answered(c, "get_results") /\ Answered(d, "get_results")
               /\ calls[c].task_id = calls[d].task_id
               /\ calls[c].seen = {} /\ calls[d].seen = {} )
             => /\ calls[c].err = calls[d].err
                /\ calls[c].result = calls[d].result)']_vars

\* Two queries at different seconds have answered with the snapshot of a
\* completed task
C28_Witness ==
    \E c, d \in Callers :
        /\ c # d
        /\ Answered(c, "get_results") /\ Answered(d, "get_results")
        /\ calls[c].task_id = calls[d].task_id
        /\ calls[c].seen = {} /\ calls[d].seen = {}
        /\ calls[c].t0 # calls[d].t0
        /\ Len(calls[c].result) = 1
        /\ calls[c].result[1].status = "completed"
        /\ calls[d].result = calls[c].result

Acceptable(file) ==
    /\ file.size = Absent \/ (file.size[1] > 0 /\ file.size[1] <= MAX_FILE_MB)
    /\ file.content_type \in AllowedMimes
    /\ file.streamed <= MAX_FILE_MB

\* C30: a submit request that upload validation rejects (announced empty,
\* over MAX_FILE_MB as announced or as streamed, or of a disallowed type)
\* ends with the error and takes no step that creates a record or enqueues
\* a run; every record and every job comes from a request that was not
\* rejected.
C30_RejectedSubmit ==
    [][/\ \A c \in Callers :
            ( /\ calls[c].op = "submit" /\ Advances(c, "submit")
              /\ (statuses' # statuses \/ redis_db' # redis_db \/ jobs' # jobs) )
            => (Acceptable(calls[c].upload) /\ calls'[c].err = "")
       /\ (statuses' # statuses \/ redis_db' # redis_db \/ Len(jobs') # Len(jobs))
            => \E c \in Callers : calls[c].op = "submit" /\ Advances(c, "submit")
       /\ (\A c \in Callers :
             Answered(c, "submit_remove_task") =>
                /\ ~Acceptable(calls[c].upload) <=> calls[c].err \in {"400", "413", "415"}
                /\ calls[c].err # "" => ~calls[c].tmp)']_vars

\* Requests rejected while streaming and for the type have been answered
\* and nothing is stored or enqueued
C30_Witness ==
    /\ \E c, d \in Callers :
         /\ Answered(c, "submit_remove_task") /\ Answered(d, "submit_remove_task")
         /\ calls[c].err = "413" /\ calls[c].upload.size = Absent
         /\ calls[d].err = "415"
    /\ Store = EmptyDict
    /\ jobs = <<>>

Elems(seq) == {seq[i] : i \in 1..Len(seq)}

\* First, middle and last of n frames
FirstMiddleLast(n) ==
    {0} \cup (IF n >= 2 THEN {n \div 2} ELSE {})
        \cup (IF n >= 3 THEN {n - 1} ELSE {})

\* The sampling loop of run j has been left without an exception
PastDetection(j) ==
    \/ jobs[j].st = "returned"
    \/ /\ jobs[j].st = "running"
       /\ jobs[j].pc \in {"mask", "upd_inpainting", "frames", "render",
                          "upd_uploading", "upload", "finalize", "webhook",
                          "return"}

\* C31: for n >= 1 extracted frames detection is called on index 0, on
\* floor(n/2) when n >= 2 and on n-1 when n >= 3, once each and on no other
\* frame: at most three indices, all within 0..n-1; the candidate boxes are
\* the boxes returned for these samples, none of them dropped while the run
\* goes on.
C31_DetectionSample ==
    [][\A j \in JobIdx :
         /\ (jobs[j].n >= 1 /\ jobs[j].st = "running") =>
               \A i \in 1..Len(jobs[j].all_boxes) :
                   /\ i <= Len(jobs'[j].all_boxes) \/ jobs'[j].pc = "except"
                   /\ i <= Len(jobs'[j].all_boxes) =>
                         jobs'[j].all_boxes[i] = jobs[j].all_boxes[i]
         /\ jobs'[j].n >= 1 =>
               /\ Elems(jobs'[j].detected) \subseteq
                     FirstMiddleLast(jobs'[j].n) \cap (0..(jobs'[j].n - 1))
               /\ Len(jobs'[j].detected) = Cardinality(Elems(jobs'[j].detected))
               /\ Len(jobs'[j].detected) <= 3
               /\ PastDetection(j)' =>
                     Elems(jobs'[j].detected) = FirstMiddleLast(jobs'[j].n)
               /\ {b.frame : b \in Elems(jobs'[j].all_boxes)}
                     \subseteq Elems(jobs'[j].detected)
               /\ PastDetection(j)' =>
                     (jobs'[j].boxes <=> jobs'[j].all_boxes # <<>>)]_vars

\* Eleven frames sampled at 0, 5 and 10, two of the samples with a box
C31_Witness ==
    \E j \in JobIdx :
        /\ PastDetection(j)
        /\ jobs[j].n = 11
        /\ jobs[j].detected = <<0, 5, 10>>
        /\ jobs[j].all_boxes = <<[frame |-> 0], [frame |-> 10]>>

\* The stage names run j has written, in order
StagesWritten(j) == [i \in 1..Len(StageWrites(j)) |-> StageWrites(j)[i].stage]

\* The first run is about to build its mask from an empty detection
NoBoxFound ==
    /\ Len(jobs) >= 1
    /\ jobs[1].st = "running"
    /\ jobs[1].pc = "mask"
    /\ jobs[1].all_boxes = <<>>

\* The first run returned after the stages of a run with detections
CompletedAsUsual ==
    /\ Len(jobs) >= 1
    /\ jobs[1].st = "returned"
    /\ jobs[1].exc = ""
    /\ jobs[1].mask = ZeroMask
    /\ StagesWritten(1) = <<"downloading", "extracting", "detecting", "inpainting",
                            "rendering", "uploading_output", "finalizing">>
    /\ Last(jobs[1].log).status = "completed"
    /\ \A rec \in Get(jobs[1].task_id) : rec.status = "completed"

\* The first run was ended by a collaborator of a later stage raising
LaterStageRaised ==
    /\ Len(jobs) >= 1
    /\ jobs[1].st = "raised"
    /\ jobs[1].exc \in {"'NoneType' object has no attribute 'shape'",
                        "inpaint failed", "ffmpeg error", "upload failed"}

\* C32: a run whose detection returned no box for any sample does not enter
\* its error path for that: it builds an all-zero mask, goes through
\* inpainting, rendering and uploading_output and ends with status completed,
\* unless the frame reader, the inpainter, ffmpeg or the upload raises, as
\* they may in a run with detections.
C32_NoDetectionCompletes ==
    NoBoxFound ~> (CompletedAsUsual \/ LaterStageRaised)

\* A run on three frames, none of its samples with a box, returned completed
C32_Witness ==
    /\ CompletedAsUsual
    /\ jobs[1].n = 3
    /\ jobs[1].detected = <<0, 1, 2>>
    /\ jobs[1].all_boxes = <<>>
    /\ Cardinality(Get(jobs[1].task_id)) = 1

\* The frames up to k after which an update is due: the multiples of 10 and
\* the last frame
FlushesDue(k, n) == {i \in 1..k : i % 10 = 0 \/ i = n}

\* Run j is in its frame loop or has left it without an exception
InOrPastFrames(j) ==
    \/ jobs[j].st = "returned"
    \/ /\ jobs[j].st = "running"
       /\ jobs[j].pc \in {"frames", "render", "upd_uploading", "upload",
                          "finalize", "webhook", "return"}

\* C33: while n frames are inpainted an update is written after frame k
\* exactly when k is a multiple of 10 or k = n, whether or not the frame could
\* be read: after k frames the run has written one update per such frame, and
\* after the last frame it has written ceil(n/10) of them, the last one
\* leaving frames_done = n in the record.
C33_FlushEveryTen ==
    \A j \in JobIdx :
        (InOrPastFrames(j) /\ jobs[j].n >= 1) =>
            /\ Len(SelectSeq(jobs[j].log, FrameWrite))
                 = Cardinality(FlushesDue(jobs[j].idx, jobs[j].n))
            /\ jobs[j].idx = jobs[j].n =>
                 /\ Len(SelectSeq(jobs[j].log, FrameWrite)) = (jobs[j].n + 9) \div 10
                 /\ \A rec \in Get(jobs[j].task_id) : rec.frames_done = jobs[j].n

\* C34: in the record of a run frames_total is set when extraction completes
\* and never changes afterwards, 0 <= frames_done <= frames_total,
\* frames_done never decreases, and a completed record has
\* frames_done = frames_total.
C34_FrameCounters ==
    [][\A t \in DOMAIN Store :
         /\ t \in DOMAIN Store' =>
              /\ Store[t].frames_total # NoneInt =>
                   Store'[t].frames_total = Store[t].frames_total
              /\ Store[t].frames_done # NoneInt =>
                   Store'[t].frames_done >= Store[t].frames_done
         /\ Store[t].frames_total # NoneInt =>
              /\ 0 <= Store[t].frames_done
              /\ Store[t].frames_done <= Store[t].frames_total
         /\ Store[t].status = "completed" =>
              Store[t].frames_done = Store[t].frames_total]_vars

\* Run j has left its frame loop and the frames are there for render_video
FramesReady(j) ==
    /\ jobs[j].st = "running"
    /\ jobs[j].pc \in {"render", "upd_uploading", "upload", "finalize",
                       "webhook", "return"}

\* C35: when inpainting has finished the processed frames are numbered
\* 1, 2, ..., m without a gap, also when an extracted frame could not be
\* read and was skipped.
C35_FramesContiguous ==
    \A j \in JobIdx :
        FramesReady(j) =>
            jobs[j].written = 1..Cardinality(jobs[j].written)

C37_StagedFileRemoved ==
    /\ \A c \in Callers :
         (Answered(c, "submit_remove_task") /\ calls[c].err # "") => ~calls[c].tmp
    /\ \A j \in JobIdx : Finished(j) => ~jobs[j].tmp_path

=========================================================================
